---------------------------- MODULE Spec2Model ----------------------------
(***************************************************************************)
(* Amex Wrapped: the statement parser (src/lib/csv-parser.ts), the         *)
(* aggregation engine (src/lib/stats.ts) and the transaction store         *)
(* (src/store/transaction-store.ts) as state machines.                     *)
(*                                                                         *)
(* Conventions                                                             *)
(*   - a JavaScript string is a TLA+ string; characters are read with      *)
(*     SubSeq(s, i, i), so trimming, splitting, case folding and the       *)
(*     regular expressions of the source are computed character by         *)
(*     character;                                                          *)
(*   - a JavaScript number that may be NaN is a record [nan, v]; v counts  *)
(*     ten-thousandths (59.25 is 592500): a half-cent and a four-digit    *)
(*     exchange rate are representable;                                    *)
(*     binary floating-point representation error is not modelled;         *)
(*   - null / undefined is the empty tuple <<>>, a present value v is      *)
(*     <<v>>;                                                              *)
(*   - a Date is [valid, day], day being the local day number counted      *)
(*     from 1970-01-01 (every Date of the program is a local midnight).    *)
(***************************************************************************)
EXTENDS Integers, Sequences, FiniteSets, TLC

VARIABLES
    \* ---- one parseAmexCSV call (ParseSpec)
    pfile,          \* the CSV file handed to Papa.parse
    ppc,            \* "start" | "done"
    presult,        \* what the promise settled with
    \* ---- one row transform (TransformSpec)
    trow,           \* the Papa row object
    tindex,         \* its 0-based index in results.data
    tpc,            \* "start" | "uk" | "mexico"
    tout,           \* the enriched Transaction, <<>> before the call
    \* ---- the zustand store and the stats module's currency globals (StoreSpec)
    transactions, stats, fileName, format, currency, currencyLocale,
    isLoading, error,
    currentCurrency, currentLocale,
    calls,          \* the loadCSV calls in flight
    \* ---- one parseForeignCurrency call (DetailsSpec)
    fparts,         \* the pieces of the Extended Details text
    fpc,            \* "start" | "done"
    finfo,          \* the ForeignCurrencyInfo, <<>> for null
    \* ---- one calculateWrappedStats call (StatsSpec)
    slist,          \* the Transaction list
    spc,            \* "start" | "done"
    sstats          \* the WrappedStats, <<>> before the call

parseVars == <<pfile, ppc, presult>>
transformVars == <<trow, tindex, tpc, tout>>
storeVars == <<transactions, stats, fileName, format, currency, currencyLocale,
               isLoading, error, currentCurrency, currentLocale, calls>>
detailsVars == <<fparts, fpc, finfo>>
statsVars == <<slist, spc, sstats>>
vars == <<parseVars, transformVars, storeVars, detailsVars, statsVars>>

Null == <<>>
Some(v) == <<v>>

(***************************************************************************)
(* Strings                                                                 *)
(***************************************************************************)
CharAt(s, i) == SubSeq(s, i, i)

UpperAlphabet == "ABCDEFGHIJKLMNOPQRSTUVWXYZ"
LowerAlphabet == "abcdefghijklmnopqrstuvwxyz"
DigitAlphabet == "0123456789"

Chars(alphabet) == {CharAt(alphabet, i) : i \in 1..Len(alphabet)}
UpperSet == Chars(UpperAlphabet)
LowerSet == Chars(LowerAlphabet)
DigitSet == Chars(DigitAlphabet)
IndexIn(alphabet) ==
    [c \in Chars(alphabet) |-> CHOOSE i \in 1..Len(alphabet) : CharAt(alphabet, i) = c]
UpperIndex == IndexIn(UpperAlphabet)
LowerIndex == IndexIn(LowerAlphabet)
DigitIndex == IndexIn(DigitAlphabet)

IsSpace(c) == c \in {" ", "\t", "\n", "\r", "\f"}
IsDigit(c) == c \in DigitSet
IsUpper(c) == c \in UpperSet
IsLower(c) == c \in LowerSet
IsLetter(c) == IsUpper(c) \/ IsLower(c)
\* \w of a JavaScript regular expression
IsWordChar(c) == IsLetter(c) \/ IsDigit(c) \/ c = "_"

DigitVal(c) == DigitIndex[c] - 1

\* case folding of the letters A-Z (the texts of the model hold no other cased letter
\* in a place where its case matters)
LowerChar(c) == IF IsUpper(c) THEN CharAt(LowerAlphabet, UpperIndex[c]) ELSE c

UpperChar(c) == IF IsLower(c) THEN CharAt(UpperAlphabet, LowerIndex[c]) ELSE c

RECURSIVE toLowerCase(_)
toLowerCase(s) ==
    IF s = "" THEN ""
    ELSE LowerChar(CharAt(s, 1)) \o toLowerCase(SubSeq(s, 2, Len(s)))

RECURSIVE toUpperCase(_)
toUpperCase(s) ==
    IF s = "" THEN ""
    ELSE UpperChar(CharAt(s, 1)) \o toUpperCase(SubSeq(s, 2, Len(s)))

RECURSIVE trimStart(_)
trimStart(s) ==
    IF s # "" /\ IsSpace(CharAt(s, 1)) THEN trimStart(SubSeq(s, 2, Len(s))) ELSE s

RECURSIVE trimEnd(_)
trimEnd(s) ==
    IF s # "" /\ IsSpace(CharAt(s, Len(s))) THEN trimEnd(SubSeq(s, 1, Len(s) - 1)) ELSE s

trim(s) == trimEnd(trimStart(s))

\* s.substring(i) with a 1-based i
From(s, i) == SubSeq(s, i, Len(s))

StartsWithAt(s, i, p) == i + Len(p) - 1 <= Len(s) /\ SubSeq(s, i, i + Len(p) - 1) = p
startsWith(s, p) == StartsWithAt(s, 1, p)
includes(s, p) == \E i \in 1..(Len(s) + 1) : StartsWithAt(s, i, p)

\* 1-based index of the first occurrence of p in s at or after i, 0 when none
IndexFrom(s, p, i) ==
    IF \E j \in i..(Len(s) + 1) : StartsWithAt(s, j, p)
    THEN CHOOSE j \in i..(Len(s) + 1) :
            /\ StartsWithAt(s, j, p)
            /\ \A k \in i..(j - 1) : ~StartsWithAt(s, k, p)
    ELSE 0

\* s.split(sep) for a one-character separator: always at least one piece
RECURSIVE split(_, _)
split(s, sep) ==
    LET i == IndexFrom(s, sep, 1)
    IN  IF i = 0 THEN <<s>>
        ELSE <<SubSeq(s, 1, i - 1)>> \o split(From(s, i + 1), sep)

\* s.replace(/c/g, '') for a one-character c
RECURSIVE removeAll(_, _)
removeAll(s, c) ==
    IF s = "" THEN ""
    ELSE (IF CharAt(s, 1) = c THEN "" ELSE CharAt(s, 1)) \o removeAll(From(s, 2), c)

(***************************************************************************)
(* Numbers                                                                 *)
(***************************************************************************)
\* one unit of a number is 1/Scale
Scale == 10 * 1000

NaN == [nan |-> TRUE, v |-> 0]
Num(v) == [nan |-> FALSE, v |-> v]

\* Math.abs left out
AbsOmitted(n) == n

Abs(n) == IF n < 0 THEN -n ELSE n
\* Math.max(0, x) left out: x itself
FloorOmitted(a, b) == b

Max(a, b) == IF a >= b THEN a ELSE b

\* the index just after the run of digits of s that starts at i
RECURSIVE DigitsEnd(_, _)
DigitsEnd(s, i) ==
    IF i <= Len(s) /\ IsDigit(CharAt(s, i)) THEN DigitsEnd(s, i + 1) ELSE i

RECURSIVE DigitsValue(_)
DigitsValue(s) ==
    IF s = "" THEN 0
    ELSE 10 * DigitsValue(SubSeq(s, 1, Len(s) - 1)) + DigitVal(CharAt(s, Len(s)))

\* the fraction digits f in units of 1/Scale (digits past the fourth are dropped)
FractionValue(f) ==
    LET d(i) == IF i <= Len(f) THEN DigitVal(CharAt(f, i)) ELSE 0
    IN  1000 * d(1) + 100 * d(2) + 10 * d(3) + d(4)

\* The longest prefix of s that is a decimal literal  [+-] digits [. digits]
\* or [+-] . digits : [ok, v, end] with end the index just after it.
DecimalPrefix(s) ==
    LET signed == s # "" /\ CharAt(s, 1) \in {"+", "-"}
        neg == signed /\ CharAt(s, 1) = "-"
        b == IF signed THEN 2 ELSE 1
        e == DigitsEnd(s, b)
        dot == e <= Len(s) /\ CharAt(s, e) = "."
        fe == IF dot THEN DigitsEnd(s, e + 1) ELSE e
        hasInt == e > b
        hasFrac == dot /\ fe > e + 1
        stop == IF dot /\ (hasInt \/ hasFrac) THEN fe ELSE e
        mag == DigitsValue(SubSeq(s, b, e - 1)) * Scale
               + (IF hasFrac THEN FractionValue(SubSeq(s, e + 1, fe - 1)) ELSE 0)
    IN  [ok |-> hasInt \/ hasFrac, v |-> IF neg THEN -mag ELSE mag, end |-> stop]

\* parseFloat(s): leading white space skipped, trailing text ignored
parseFloat(s) ==
    LET p == DecimalPrefix(trimStart(s))
    IN  IF p.ok THEN Num(p.v) ELSE NaN

\* Number(s): the whole trimmed string must be a literal; '' is 0
Number(s) ==
    LET t == trim(s)
        p == DecimalPrefix(t)
    IN  IF t = "" THEN Num(0)
        ELSE IF p.ok /\ p.end = Len(t) + 1 THEN Num(p.v)
        ELSE NaN

\* parseInt(s, 10): leading white space skipped, [+-] digits, trailing text ignored
parseInt(s) ==
    LET t == trimStart(s)
        signed == t # "" /\ CharAt(t, 1) \in {"+", "-"}
        b == IF signed THEN 2 ELSE 1
        e == DigitsEnd(t, b)
        mag == DigitsValue(SubSeq(t, b, e - 1)) * Scale
    IN  IF e > b THEN Num(IF signed /\ CharAt(t, 1) = "-" THEN -mag ELSE mag)
        ELSE NaN

\* x || 0 for a number x (NaN and 0 are falsy)
OrZero(n) == IF n.nan THEN 0 ELSE n.v

\* ToIntegerOrInfinity: truncation toward zero
Trunc(v) == IF v >= 0 THEN v \div Scale ELSE -((-v) \div Scale)

(***************************************************************************)
(* Dates: new Date(year, monthIndex, day) and its getters                  *)
(***************************************************************************)
InvalidDate == [valid |-> FALSE, day |-> 0]

\* days from 1970-01-01 to the civil date y-m-d (m in 1..12)
DaysFromCivil(y, m, d) ==
    LET yy == IF m <= 2 THEN y - 1 ELSE y
        era == yy \div 400
        yoe == yy - era * 400
        mp == IF m > 2 THEN m - 3 ELSE m + 9
        doy == (153 * mp + 2) \div 5 + d - 1
        doe == yoe * 365 + yoe \div 4 - yoe \div 100 + doy
    IN  era * 146097 + doe - 719468

CivilFromDays(z) ==
    LET zz == z + 719468
        era == zz \div 146097
        doe == zz - era * 146097
        yoe == (doe - doe \div 1460 + doe \div 36524 - doe \div 146096) \div 365
        doy == doe - (365 * yoe + yoe \div 4 - yoe \div 100)
        mp == (5 * doy + 2) \div 153
        d == doy - (153 * mp + 2) \div 5 + 1
        m == IF mp < 10 THEN mp + 3 ELSE mp - 9
        y == yoe + era * 400 + (IF m <= 2 THEN 1 ELSE 0)
    IN  [year |-> y, month |-> m, day |-> d]

\* new Date(year, monthIndex, day): NaN in any argument gives an Invalid Date,
\* a year of 0..99 means 1900 + year, months and days out of range carry over
NewDate(year, monthIndex, day) ==
    IF year.nan \/ monthIndex.nan \/ day.nan THEN InvalidDate
    ELSE LET y0 == Trunc(year.v)
             y1 == IF y0 >= 0 /\ y0 <= 99 THEN 1900 + y0 ELSE y0
             mi == Trunc(monthIndex.v)
             ym == y1 + mi \div 12
             mn == mi % 12
         IN  [valid |-> TRUE, day |-> DaysFromCivil(ym, mn + 1, 1) + Trunc(day.v) - 1]

getFullYear(date) == CivilFromDays(date.day).year
\* 0-based, as Date.prototype.getMonth
getMonth(date) == CivilFromDays(date.day).month - 1
getDate(date) == CivilFromDays(date.day).day

(***************************************************************************)
(* csv-parser.ts                                                           *)
(***************************************************************************)
CURRENCY_CODES ==
    [n \in {"UNITED STATES DOLLAR", "EUROPEAN UNION EURO", "JAPANESE YEN",
            "BRITISH POUND", "AUSTRALIAN DOLLAR", "CANADIAN DOLLAR", "SWISS FRANC",
            "CHINESE YUAN", "HONG KONG DOLLAR", "SINGAPORE DOLLAR", "THAI BAHT",
            "INDIAN RUPEE", "MEXICAN PESO", "SOUTH AFRICAN RAND", "NEW ZEALAND DOLLAR",
            "SWEDISH KRONA", "NORWEGIAN KRONE", "DANISH KRONE", "POLISH ZLOTY",
            "CZECH KORUNA", "HUNGARIAN FORINT", "TURKISH LIRA", "ISRAELI SHEKEL",
            "UNITED ARAB EMIRATES DIRHAM", "SAUDI RIYAL", "BRAZILIAN REAL",
            "COSTA RICA COLON", "SERBIAN DINAR", "QATARI RIAL", "QATARI RIYAL",
            "MALAYSIAN RINGGIT", "PHILIPPINE PESO", "INDONESIAN RUPIAH", "KOREAN WON",
            "SOUTH KOREAN WON", "TAIWANESE DOLLAR", "VIETNAMESE DONG", "EGYPTIAN POUND",
            "MOROCCAN DIRHAM", "ICELANDIC KRONA", "CROATIAN KUNA", "ROMANIAN LEU",
            "BULGARIAN LEV"} |->
        CASE n = "UNITED STATES DOLLAR" -> "USD" [] n = "EUROPEAN UNION EURO" -> "EUR"
          [] n = "JAPANESE YEN" -> "JPY" [] n = "BRITISH POUND" -> "GBP"
          [] n = "AUSTRALIAN DOLLAR" -> "AUD" [] n = "CANADIAN DOLLAR" -> "CAD"
          [] n = "SWISS FRANC" -> "CHF" [] n = "CHINESE YUAN" -> "CNY"
          [] n = "HONG KONG DOLLAR" -> "HKD" [] n = "SINGAPORE DOLLAR" -> "SGD"
          [] n = "THAI BAHT" -> "THB" [] n = "INDIAN RUPEE" -> "INR"
          [] n = "MEXICAN PESO" -> "MXN" [] n = "SOUTH AFRICAN RAND" -> "ZAR"
          [] n = "NEW ZEALAND DOLLAR" -> "NZD" [] n = "SWEDISH KRONA" -> "SEK"
          [] n = "NORWEGIAN KRONE" -> "NOK" [] n = "DANISH KRONE" -> "DKK"
          [] n = "POLISH ZLOTY" -> "PLN" [] n = "CZECH KORUNA" -> "CZK"
          [] n = "HUNGARIAN FORINT" -> "HUF" [] n = "TURKISH LIRA" -> "TRY"
          [] n = "ISRAELI SHEKEL" -> "ILS" [] n = "UNITED ARAB EMIRATES DIRHAM" -> "AED"
          [] n = "SAUDI RIYAL" -> "SAR" [] n = "BRAZILIAN REAL" -> "BRL"
          [] n = "COSTA RICA COLON" -> "CRC" [] n = "SERBIAN DINAR" -> "RSD"
          [] n = "QATARI RIAL" -> "QAR" [] n = "QATARI RIYAL" -> "QAR"
          [] n = "MALAYSIAN RINGGIT" -> "MYR" [] n = "PHILIPPINE PESO" -> "PHP"
          [] n = "INDONESIAN RUPIAH" -> "IDR" [] n = "KOREAN WON" -> "KRW"
          [] n = "SOUTH KOREAN WON" -> "KRW" [] n = "TAIWANESE DOLLAR" -> "TWD"
          [] n = "VIETNAMESE DONG" -> "VND" [] n = "EGYPTIAN POUND" -> "EGP"
          [] n = "MOROCCAN DIRHAM" -> "MAD" [] n = "ICELANDIC KRONA" -> "ISK"
          [] n = "CROATIAN KUNA" -> "HRK" [] n = "ROMANIAN LEU" -> "RON"
          [] n = "BULGARIAN LEV" -> "BGN"]

\* parts[i] read through Number, undefined (a missing part) giving NaN
NumberAt(parts, i) == IF i <= Len(parts) THEN Number(parts[i]) ELSE NaN

parseUKDate(dateStr) ==
    LET parts == split(dateStr, "/")
        day == NumberAt(parts, 1)
        month == NumberAt(parts, 2)
        year == NumberAt(parts, 3)
    IN  NewDate(year, IF month.nan THEN NaN ELSE Num(month.v - Scale), day)

months ==
    [n \in {"Jan", "Feb", "Mar", "Apr", "May", "Jun",
            "Jul", "Aug", "Sep", "Oct", "Nov", "Dec"} |->
        CASE n = "Jan" -> 0 [] n = "Feb" -> 1 [] n = "Mar" -> 2 [] n = "Apr" -> 3
          [] n = "May" -> 4 [] n = "Jun" -> 5 [] n = "Jul" -> 6 [] n = "Aug" -> 7
          [] n = "Sep" -> 8 [] n = "Oct" -> 9 [] n = "Nov" -> 10 [] n = "Dec" -> 11]

parseMexicoDate(dateStr) ==
    LET parts == split(trim(dateStr), " ")
    IN  IF Len(parts) # 3 THEN InvalidDate
        ELSE LET day == parseInt(parts[1])
                 year == parseInt(parts[3])
             IN  IF day.nan \/ parts[2] \notin DOMAIN months \/ year.nan
                 THEN InvalidDate
                 ELSE NewDate(year, Num(months[parts[2]] * Scale), day)

\* detectAmexFormat without the lower-casing of the headers
detectAmexFormatCaseSensitive(headers) ==
    LET normalizedHeaders == {trim(headers[i]) : i \in DOMAIN headers}
    IN  IF "date" \in normalizedHeaders /\ "category" \in normalizedHeaders
        THEN Some("uk")
        ELSE IF "fecha" \in normalizedHeaders /\ "importe" \in normalizedHeaders
        THEN Some("mexico")
        ELSE Null

detectAmexFormat(headers) ==
    LET normalizedHeaders == {toLowerCase(trim(headers[i])) : i \in DOMAIN headers}
    IN  IF "date" \in normalizedHeaders /\ "category" \in normalizedHeaders
        THEN Some("uk")
        ELSE IF "fecha" \in normalizedHeaders /\ "importe" \in normalizedHeaders
        THEN Some("mexico")
        ELSE Null

\* description.split(/\s{2,}/)[0]
BeforeSpaceRun(s) ==
    LET run(i) == IsSpace(CharAt(s, i)) /\ IsSpace(CharAt(s, i + 1))
    IN  IF \E i \in 1..(Len(s) - 1) : run(i)
        THEN SubSeq(s, 1, (CHOOSE i \in 1..(Len(s) - 1) :
                              run(i) /\ \A k \in 1..(i - 1) : ~run(k)) - 1)
        ELSE s

\* name.replace(/\*[\w\d]+$/, '')
StripStarSuffix(s) ==
    LET hit(i) == /\ CharAt(s, i) = "*"
                  /\ i < Len(s)
                  /\ \A k \in (i + 1)..Len(s) : IsWordChar(CharAt(s, k))
    IN  IF \E i \in 1..Len(s) : hit(i)
        THEN SubSeq(s, 1, (CHOOSE i \in 1..Len(s) : hit(i)) - 1)
        ELSE s

\* name.replace(/^prefix/, by)
ReplacePrefix(s, prefix, by) ==
    IF startsWith(s, prefix) THEN by \o From(s, Len(prefix) + 1) ELSE s

\* name.replace(/\d+$/, '')
RECURSIVE StripTrailingDigits(_)
StripTrailingDigits(s) ==
    IF s # "" /\ IsDigit(CharAt(s, Len(s)))
    THEN StripTrailingDigits(SubSeq(s, 1, Len(s) - 1))
    ELSE s

\* extractMerchantName without the removal of trailing digits
extractMerchantNameKeepingDigits(description) ==
    LET n0 == BeforeSpaceRun(description)
        n1 == trim(StripStarSuffix(n0))
        n2 == ReplacePrefix(n1, "AMZNMKTPLACE", "Amazon Marketplace")
        n3 == ReplacePrefix(n2, "AMAZON.CO.UK", "Amazon")
        n4 == ReplacePrefix(n3, "PADDLE.NET*", "")
        name == trim(ReplacePrefix(n4, "SP ", ""))
    IN  IF name # "" THEN name ELSE description

extractMerchantName(description) ==
    LET n0 == BeforeSpaceRun(description)
        n1 == trim(StripStarSuffix(n0))
        n2 == ReplacePrefix(n1, "AMZNMKTPLACE", "Amazon Marketplace")
        n3 == ReplacePrefix(n2, "AMAZON.CO.UK", "Amazon")
        n4 == ReplacePrefix(n3, "PADDLE.NET*", "")
        n5 == ReplacePrefix(n4, "SP ", "")
        name == trim(StripTrailingDigits(n5))
    IN  IF name # "" THEN name ELSE description

\* parts[i]?.trim() || fallback, for a 1-based i
PartOr(parts, i, fallback) ==
    IF i <= Len(parts) /\ trim(parts[i]) # "" THEN trim(parts[i]) ELSE fallback

parseMainCategory(category) == PartOr(split(category, "-"), 1, "Other")

parseSubCategory(category) == PartOr(split(category, "-"), 2, "")

\* p matches s at index i under the i flag of a regular expression
StartsWithAtCI(s, i, p) ==
    /\ i + Len(p) - 1 <= Len(s)
    /\ \A k \in 1..Len(p) : LowerChar(CharAt(s, i + k - 1)) = LowerChar(CharAt(p, k))

\* the index just after the run of [\d,.] of s that starts at i
RECURSIVE AmountEnd(_, _)
AmountEnd(s, i) ==
    IF i <= Len(s) /\ (IsDigit(CharAt(s, i)) \/ CharAt(s, i) \in {",", "."})
    THEN AmountEnd(s, i + 1) ELSE i

RECURSIVE SpaceEnd(_, _)
SpaceEnd(s, i) ==
    IF i <= Len(s) /\ IsSpace(CharAt(s, i)) THEN SpaceEnd(s, i + 1) ELSE i

\* (?:\s+Commission|$) matched at index e + 1 of s, under the i flag
ForeignTail(s, e) ==
    \/ e = Len(s)
    \/ /\ e < Len(s)
       /\ IsSpace(CharAt(s, e + 1))
       /\ StartsWithAtCI(s, SpaceEnd(s, e + 1), "Commission")

\* /Foreign Spend Amount:\s*([\d,.]+)\s+([A-Z\s]+?)(?:\s+Commission|$)/i tried
\* at index i of s: <<>> when it does not match there, else <<[amount, currency]>>.
\* The amount is the longest run of [\d,.]; the white space after it is taken
\* greedily and given back one character at a time; the currency group is lazy.
ForeignMatchAt(s, i) ==
    LET a == SpaceEnd(s, i + Len("Foreign Spend Amount:"))
        k == AmountEnd(s, a)
        w == SpaceEnd(s, k)
        group(g, e) == /\ \A x \in g..e : IsLetter(CharAt(s, x)) \/ IsSpace(CharAt(s, x))
                       /\ ForeignTail(s, e)
        starts == {g \in (k + 1)..w : \E e \in g..Len(s) : group(g, e)}
    IN  IF ~StartsWithAtCI(s, i, "Foreign Spend Amount:") \/ k = a \/ w = k \/ starts = {}
        THEN Null
        ELSE LET g == CHOOSE x \in starts : \A y \in starts : y <= x
                 e == CHOOSE x \in g..Len(s) :
                         group(g, x) /\ \A y \in g..(x - 1) : ~group(g, y)
             IN  Some([amount |-> SubSeq(s, a, k - 1), currency |-> SubSeq(s, g, e)])

\* String.prototype.match: the match at the leftmost index that has one
ForeignMatch(s) ==
    LET hits == {i \in 1..Len(s) : ForeignMatchAt(s, i) # Null}
    IN  IF hits = {} THEN Null
        ELSE ForeignMatchAt(s, CHOOSE i \in hits : \A j \in hits : i <= j)

\* /label\s*([\d,.]+)/i : the first capture, <<>> when there is no match
LabelledAmount(s, label) ==
    LET hit(i) == /\ StartsWithAtCI(s, i, label)
                  /\ AmountEnd(s, SpaceEnd(s, i + Len(label))) > SpaceEnd(s, i + Len(label))
        hits == {i \in 1..Len(s) : hit(i)}
    IN  IF hits = {} THEN Null
        ELSE LET i == CHOOSE x \in hits : \A y \in hits : x <= y
                 a == SpaceEnd(s, i + Len(label))
             IN  Some(SubSeq(s, a, AmountEnd(s, a) - 1))

parseForeignCurrency(extendedDetails) ==
    IF extendedDetails = "" \/ ~includes(extendedDetails, "Foreign Spend Amount:")
    THEN Null
    ELSE LET foreignMatch == ForeignMatch(extendedDetails)
         IN  IF foreignMatch = Null THEN Null
             ELSE LET foreignAmount == parseFloat(removeAll(foreignMatch[1].amount, ","))
                      cur == trim(foreignMatch[1].currency)
                      commissionMatch == LabelledAmount(extendedDetails, "Commission Amount:")
                      commission == IF commissionMatch # Null
                                    THEN parseFloat(removeAll(commissionMatch[1], ","))
                                    ELSE Num(0)
                      rateMatch == LabelledAmount(extendedDetails, "Currency Exchange Rate:")
                      exchangeRate == IF rateMatch # Null
                                      THEN parseFloat(removeAll(rateMatch[1], ","))
                                      ELSE Num(0)
                      currencyCode == IF cur \in DOMAIN CURRENCY_CODES
                                      THEN CURRENCY_CODES[cur]
                                      ELSE toUpperCase(SubSeq(cur, 1, IF Len(cur) < 3 THEN Len(cur) ELSE 3))
                  IN  Some([foreignAmount |-> foreignAmount,
                            currency |-> cur,
                            currencyCode |-> currencyCode,
                            commission |-> commission,
                            exchangeRate |-> exchangeRate])

\* generateId that keeps the quotes of the reference
generateIdKeepingQuotes(transaction, index) ==
    IF transaction.reference # ""
    THEN transaction.reference
    ELSE transaction.date \o "-" \o ToString(index)

\* transaction is the raw AmexTransaction, index its position in results.data
generateId(transaction, index) ==
    IF transaction.reference # ""
    THEN removeAll(transaction.reference, "'")
    ELSE transaction.date \o "-" \o ToString(index)

paymentPatterns ==
    <<"PAYMENT RECEIVED", "PAYMENT - THANK YOU", "DIRECT DEBIT PAYMENT", "GRACIAS POR SU PAGO">>

isPaymentTransaction(description) ==
    \E i \in DOMAIN paymentPatterns : StartsWithAtCI(description, 1, paymentPatterns[i])

IncludesAny(s, words) == \E w \in words : includes(s, w)

\* /UBER(?! EATS)/ : some UBER that is not followed by " EATS"
UberNotEats(s) ==
    \E i \in 1..Len(s) : StartsWithAt(s, i, "UBER") /\ ~StartsWithAt(s, i + 4, " EATS")

\* /APPLE.*MUSIC/ : MUSIC after APPLE with no line terminator in between
AppleMusic(s) ==
    \E i \in 1..Len(s) : \E j \in (i + 5)..Len(s) :
        /\ StartsWithAt(s, i, "APPLE")
        /\ StartsWithAt(s, j, "MUSIC")
        /\ \A k \in (i + 5)..(j - 1) : CharAt(s, k) \notin {"\n", "\r"}

\* autoCategorizeMerchant with the transportation keywords tested first
autoCategorizeMerchantTransportFirst(description) ==
    LET desc == toUpperCase(description)
    IN  IF UberNotEats(desc)
           \/ IncludesAny(desc, {"DIDI", "CABIFY", "TAXI", "GASOLINA", "GAS STATION",
                                 "PEMEX", "ESTACION"})
        THEN "Transportation-Travel"
        ELSE IF IncludesAny(desc, {"UBER EATS", "RAPPI", "DIDI FOOD", "REST", "CAFE", "COFFEE",
                                   "STARBUCKS", "MCDONALD", "BURGER", "PIZZA", "TACO", "SUSHI",
                                   "BAR ", "CANTINA"})
        THEN "Restaurant-Restaurants"
        ELSE IF IncludesAny(desc, {"WALMART", "SUPERMARKET", "SUPERCENTER", "SORIANA",
                                   "CHEDRAUI", "COSTCO", "SAM'S", "BODEGA", "OXXO",
                                   "7-ELEVEN", "MERCADO"})
        THEN "Merchandise & Supplies-Groceries"
        ELSE IF IncludesAny(desc, {"NETFLIX", "SPOTIFY", "DISNEY", "PRIME VIDEO", "HBO",
                                   "YOUTUBE", "CINEPOLIS", "CINEMEX", "TICKETMASTER"})
                \/ AppleMusic(desc)
        THEN "Entertainment-Entertainment"
        ELSE IF IncludesAny(desc, {"AMAZON", "MERCADOLIBRE", "LIVERPOOL", "PALACIO", "ZARA",
                                   "H&M", "NIKE", "ADIDAS", "SHEIN", "AMERICAN EAGLE"})
        THEN "Merchandise & Supplies-Retail"
        ELSE IF IncludesAny(desc, {"PAYPAL", "APPLE", "GOOGLE", "MICROSOFT", "ADOBE", "CANVA",
                                   "DROPBOX", "NOTION", "SLACK"})
        THEN "Business Services-Technology"
        ELSE IF IncludesAny(desc, {"MARRIOTT", "HILTON", "HOTEL", "AIRBNB", "BOOKING",
                                   "EXPEDIA", "AEROMEXICO", "VOLARIS", "VIVA"})
        THEN "Travel-Travel"
        ELSE IF IncludesAny(desc, {"CFE", "TELMEX", "IZZI", "TOTALPLAY", "MEGACABLE",
                                   "STARLINK", "NETFLIX", "INTERNET"})
        THEN "Utilities-Services"
        ELSE "Other-Other"

autoCategorizeMerchant(description) ==
    LET desc == toUpperCase(description)
    IN  IF IncludesAny(desc, {"UBER EATS", "RAPPI", "DIDI FOOD", "REST", "CAFE", "COFFEE",
                              "STARBUCKS", "MCDONALD", "BURGER", "PIZZA", "TACO", "SUSHI",
                              "BAR ", "CANTINA"})
        THEN "Restaurant-Restaurants"
        ELSE IF IncludesAny(desc, {"WALMART", "SUPERMARKET", "SUPERCENTER", "SORIANA",
                                   "CHEDRAUI", "COSTCO", "SAM'S", "BODEGA", "OXXO",
                                   "7-ELEVEN", "MERCADO"})
        THEN "Merchandise & Supplies-Groceries"
        ELSE IF UberNotEats(desc)
                \/ IncludesAny(desc, {"DIDI", "CABIFY", "TAXI", "GASOLINA", "GAS STATION",
                                      "PEMEX", "ESTACION"})
        THEN "Transportation-Travel"
        ELSE IF IncludesAny(desc, {"NETFLIX", "SPOTIFY", "DISNEY", "PRIME VIDEO", "HBO",
                                   "YOUTUBE", "CINEPOLIS", "CINEMEX", "TICKETMASTER"})
                \/ AppleMusic(desc)
        THEN "Entertainment-Entertainment"
        ELSE IF IncludesAny(desc, {"AMAZON", "MERCADOLIBRE", "LIVERPOOL", "PALACIO", "ZARA",
                                   "H&M", "NIKE", "ADIDAS", "SHEIN", "AMERICAN EAGLE"})
        THEN "Merchandise & Supplies-Retail"
        ELSE IF IncludesAny(desc, {"PAYPAL", "APPLE", "GOOGLE", "MICROSOFT", "ADOBE", "CANVA",
                                   "DROPBOX", "NOTION", "SLACK"})
        THEN "Business Services-Technology"
        ELSE IF IncludesAny(desc, {"MARRIOTT", "HILTON", "HOTEL", "AIRBNB", "BOOKING",
                                   "EXPEDIA", "AEROMEXICO", "VOLARIS", "VIVA"})
        THEN "Travel-Travel"
        ELSE IF IncludesAny(desc, {"CFE", "TELMEX", "IZZI", "TOTALPLAY", "MEGACABLE",
                                   "STARLINK", "NETFLIX", "INTERNET"})
        THEN "Utilities-Services"
        ELSE "Other-Other"

\* transformTransaction with the refund flag taken from the sign alone
transformTransactionSignOnly(raw, index) ==
    LET parsedDate == parseUKDate(raw.date)
        amount == raw.amount
        isPayment == isPaymentTransaction(raw.description)
    IN  [date |-> raw.date,
         description |-> raw.description,
         amount |-> amount,
         extendedDetails |-> raw.extendedDetails,
         appearsOnStatement |-> raw.appearsOnStatement,
         address |-> raw.address,
         townCity |-> raw.townCity,
         postcode |-> raw.postcode,
         country |-> raw.country,
         reference |-> raw.reference,
         category |-> raw.category,
         id |-> generateId(raw, index),
         parsedDate |-> parsedDate,
         absoluteAmount |-> Abs(amount),
         isRefund |-> amount < 0,
         isPayment |-> isPayment,
         mainCategory |-> parseMainCategory(raw.category),
         subCategory |-> parseSubCategory(raw.category),
         merchantName |-> extractMerchantName(raw.description),
         foreignCurrency |-> parseForeignCurrency(raw.extendedDetails)]

\* raw is the AmexTransaction built by parseAmexCSV (its amount is a number)
transformTransaction(raw, index) ==
    LET parsedDate == parseUKDate(raw.date)
        amount == raw.amount
        isPayment == isPaymentTransaction(raw.description)
    IN  [date |-> raw.date,
         description |-> raw.description,
         amount |-> amount,
         extendedDetails |-> raw.extendedDetails,
         appearsOnStatement |-> raw.appearsOnStatement,
         address |-> raw.address,
         townCity |-> raw.townCity,
         postcode |-> raw.postcode,
         country |-> raw.country,
         reference |-> raw.reference,
         category |-> raw.category,
         id |-> generateId(raw, index),
         parsedDate |-> parsedDate,
         absoluteAmount |-> Abs(amount),
         isRefund |-> amount < 0 /\ ~isPayment,
         isPayment |-> isPayment,
         mainCategory |-> parseMainCategory(raw.category),
         subCategory |-> parseSubCategory(raw.category),
         merchantName |-> extractMerchantName(raw.description),
         foreignCurrency |-> parseForeignCurrency(raw.extendedDetails)]

\* row[key] || fallback for a Papa row object (a missing key reads undefined)
Cell(row, key, fallback) ==
    IF key \in DOMAIN row /\ row[key] # "" THEN row[key] ELSE fallback

\* parseFloat(row[key]) || 0
AmountCell(row, key) ==
    IF key \in DOMAIN row THEN OrZero(parseFloat(row[key])) ELSE 0

transformMexicoTransaction(row, index) ==
    LET dateStr == Cell(row, "Fecha", Cell(row, "Fecha de Compra", ""))
        parsedDate == parseMexicoDate(dateStr)
        description == Cell(row, "Descripción", "")
        amount == AmountCell(row, "Importe")
        isPayment == isPaymentTransaction(description)
        category == autoCategorizeMerchant(description)
    IN  [date |-> dateStr,
         description |-> description,
         amount |-> amount,
         extendedDetails |-> "",
         appearsOnStatement |-> description,
         address |-> "",
         townCity |-> "",
         postcode |-> "",
         country |-> "Mexico",
         reference |-> "MX-" \o ToString(index),
         category |-> category,
         id |-> "MX-" \o ToString(index),
         parsedDate |-> parsedDate,
         absoluteAmount |-> Abs(amount),
         isRefund |-> amount < 0 /\ ~isPayment,
         isPayment |-> isPayment,
         mainCategory |-> parseMainCategory(category),
         subCategory |-> parseSubCategory(category),
         merchantName |-> extractMerchantName(description),
         foreignCurrency |-> Null]

\* the AmexTransaction parseAmexCSV builds from a Papa row of the UK dialect
UKRawTransaction(row) ==
    [date |-> Cell(row, "Date", ""),
     description |-> Cell(row, "Description", ""),
     amount |-> AmountCell(row, "Amount"),
     extendedDetails |-> Cell(row, "Extended Details", ""),
     appearsOnStatement |-> Cell(row, "Appears On Your Statement As", ""),
     address |-> Cell(row, "Address", ""),
     townCity |-> Cell(row, "Town/City", ""),
     postcode |-> Cell(row, "Postcode", ""),
     country |-> Cell(row, "Country", ""),
     reference |-> Cell(row, "Reference", ""),
     category |-> Cell(row, "Category", "Other")]

\* .filter(t => t.date && !isNaN(t.parsedDate.getTime()))
KeepTransaction(t) == t.date # "" /\ t.parsedDate.valid

(***************************************************************************)
(* Papa.parse(csvContent, {header: true, skipEmptyLines: true,             *)
(* transformHeader: h => h.trim()}).  A file is [quotes, headers, rows]:   *)
(* quotes says that Papa reports an error of type 'Quotes', headers is the *)
(* first line's cells as written, rows are the cells of the non-empty      *)
(* lines after it.                                                         *)
(***************************************************************************)
PapaFields(file) == [i \in DOMAIN file.headers |-> trim(file.headers[i])]

PapaRow(fields, cells) ==
    [k \in {fields[i] : i \in DOMAIN fields} |->
        cells[CHOOSE i \in DOMAIN fields : fields[i] = k]]

PapaData(file) ==
    [r \in DOMAIN file.rows |-> PapaRow(PapaFields(file), file.rows[r])]

Rejected(message) ==
    [settled |-> "rejected", message |-> message,
     transactions |-> <<>>, format |-> Null, currency |-> "", currencyLocale |-> ""]

Resolved(ts, fmt, cur, locale) ==
    [settled |-> "resolved", message |-> "",
     transactions |-> ts, format |-> Some(fmt), currency |-> cur, currencyLocale |-> locale]

UnrecognizedFormat == "Unrecognized CSV format. Please upload an Amex UK or Mexico statement."
QuotesError == "CSV parsing error: Quoted field unterminated"

MexicoTransactions(data) ==
    LET mapped == [r \in DOMAIN data |-> transformMexicoTransaction(data[r], r - 1)]
    IN  SelectSeq(mapped, KeepTransaction)

UKTransactions(data) ==
    LET mapped == [r \in DOMAIN data |-> transformTransaction(UKRawTransaction(data[r]), r - 1)]
    IN  SelectSeq(mapped, KeepTransaction)

\* what the promise returned by parseAmexCSV settles with
parseAmexCSV(file) ==
    LET detected == detectAmexFormat(PapaFields(file))
    IN  IF file.quotes THEN Rejected(QuotesError)
        ELSE IF detected = Null THEN Rejected(UnrecognizedFormat)
        ELSE IF detected = Some("mexico")
        THEN Resolved(MexicoTransactions(PapaData(file)), "mexico", "MXN", "es-MX")
        ELSE Resolved(UKTransactions(PapaData(file)), "uk", "GBP", "en-GB")

(***************************************************************************)
(* stats.ts                                                                *)
(***************************************************************************)
\* Array.prototype.sort with a comparator under which Less(a, b) says that a
\* goes before b; the sort is stable
StableSort(seq, Less(_, _)) ==
    LET n == Len(seq)
        item == SubSeq(seq, 1, n)
        pos == [i \in 1..n |-> 1 + Cardinality({j \in 1..n :
                        \/ Less(item[j], item[i])
                        \/ (~Less(item[i], item[j]) /\ j < i)})]
    IN  [p \in 1..n |-> item[CHOOSE i \in 1..n : pos[i] = p]]

\* the keys of a Map filled by one pass over seq, in insertion order
MapKeys(seq, Key(_)) ==
    LET first == SelectSeq([i \in 1..Len(seq) |-> i],
                           LAMBDA i : \A j \in 1..(i - 1) : Key(seq[j]) # Key(seq[i]))
    IN  [p \in 1..Len(first) |-> Key(seq[first[p]])]

RECURSIVE Sum(_)
Sum(seq) == IF seq = <<>> THEN 0 ELSE Head(seq) + Sum(Tail(seq))

\* sum of Val over the elements of seq
SumOf(seq, Val(_)) == Sum([i \in 1..Len(seq) |-> Val(seq[i])])

\* Math.round(x * 100) / 100: halves go toward plus infinity
Round2(v) == ((v + (Scale \div 200)) \div (Scale \div 100)) * (Scale \div 100)

\* Math.round((v / n) * 100) / 100 for a count n > 0
RoundDiv2(v, n) == ((2 * v + (Scale \div 100) * n) \div (2 * (Scale \div 100) * n)) * (Scale \div 100)

\* Math.round((part / whole) * 1000) / 10, in tenths of a percent, for
\* 0 <= part <= whole and whole > 0: 1000 * part / whole by long division,
\* one decimal digit at a time, then rounded on the remainder
RoundPercent(part, whole) ==
    LET q0 == part \div whole
        r0 == part % whole
        q1 == (10 * r0) \div whole
        r1 == (10 * r0) % whole
        q2 == (10 * r1) \div whole
        r2 == (10 * r1) % whole
        q3 == (10 * r2) \div whole
        r3 == (10 * r2) % whole
    IN  1000 * q0 + 100 * q1 + 10 * q2 + q3 + (IF 2 * r3 >= whole THEN 1 ELSE 0)

\* String(n).padStart(2, '0')
Pad2(n) == IF n >= 0 /\ n < 10 THEN "0" \o ToString(n) ELSE ToString(n)

getMonthKey(date) == ToString(getFullYear(date)) \o "-" \o Pad2(getMonth(date) + 1)

monthNames == <<"Jan", "Feb", "Mar", "Apr", "May", "Jun",
                "Jul", "Aug", "Sep", "Oct", "Nov", "Dec">>

\* new Date(parseInt(year), parseInt(month) - 1) shown as en-GB's short month
\* and the year
getMonthLabel(monthKey) ==
    LET parts == split(monthKey, "-")
        year == parseInt(parts[1])
        month == IF Len(parts) >= 2 THEN parseInt(parts[2]) ELSE NaN
        date == NewDate(year, IF month.nan THEN NaN ELSE Num(month.v - Scale), Num(Scale))
    IN  IF date.valid
        THEN monthNames[getMonth(date) + 1] \o " " \o ToString(getFullYear(date))
        ELSE "Invalid Date"

\* a.localeCompare(b) < 0 for strings of digits and hyphens: the hyphen sorts
\* before every digit, a proper prefix before its extensions
CollationOrder == "-0123456789"
CollationRank ==
    [c \in {CharAt(CollationOrder, i) : i \in 1..Len(CollationOrder)} |->
        CHOOSE i \in 1..Len(CollationOrder) : CharAt(CollationOrder, i) = c]
CharRank(c) == CollationRank[c]

RECURSIVE localeLess(_, _)
localeLess(a, b) ==
    IF b = "" THEN FALSE
    ELSE IF a = "" THEN TRUE
    ELSE IF CharAt(a, 1) = CharAt(b, 1) THEN localeLess(From(a, 2), From(b, 2))
    ELSE CharRank(CharAt(a, 1)) < CharRank(CharAt(b, 1))

\* refunds added instead of subtracted
UnsignedMagnitude(t) == t.absoluteAmount

\* the amount a transaction adds to a net total
SignedMagnitude(t) == IF t.isRefund THEN -t.absoluteAmount ELSE t.absoluteAmount

\* a filter that lets payments through
PaymentsIncluded(t) == TRUE

NotPayment(t) == ~t.isPayment

calculateCategoryTotals(ts) ==
    LET live == SelectSeq(ts, NotPayment)
        keys == MapKeys(live, LAMBDA t : t.mainCategory)
        group(k) == SelectSeq(live, LAMBDA t : t.mainCategory = k)
        total(k) == SumOf(group(k), SignedMagnitude)
        totalNetSpent == Sum([i \in 1..Len(keys) |-> Max(0, total(keys[i]))])
        entries == [i \in 1..Len(keys) |->
                      [category |-> keys[i],
                       total |-> Round2(Max(0, total(keys[i]))),
                       count |-> Len(group(keys[i])),
                       percentage |-> IF totalNetSpent > 0
                                      THEN RoundPercent(Max(0, total(keys[i])), totalNetSpent)
                                      ELSE 0]]
    IN  StableSort(SelectSeq(entries, LAMBDA c : c.total > 0),
                   LAMBDA a, b : a.total > b.total)

\* calculateMerchantTotals with refunds counted as visits
calculateMerchantTotalsCountingRefunds(ts) ==
    LET live == SelectSeq(ts, NotPayment)
        keys == MapKeys(live, LAMBDA t : t.merchantName)
        group(k) == SelectSeq(live, LAMBDA t : t.merchantName = k)
        total(k) == SumOf(group(k), SignedMagnitude)
        chargeCount(k) == Len(group(k))
        entries == [i \in 1..Len(keys) |->
                      [merchantName |-> keys[i],
                       total |-> Round2(Max(0, total(keys[i]))),
                       count |-> chargeCount(keys[i]),
                       averageTransaction |->
                           IF chargeCount(keys[i]) > 0
                           THEN RoundDiv2(Max(0, total(keys[i])), chargeCount(keys[i]))
                           ELSE 0]]
    IN  StableSort(SelectSeq(entries, LAMBDA m : m.total > 0),
                   LAMBDA a, b : a.total > b.total)

\* calculateMerchantTotals sorted by increasing total
calculateMerchantTotalsAscending(ts) ==
    LET live == SelectSeq(ts, NotPayment)
        keys == MapKeys(live, LAMBDA t : t.merchantName)
        group(k) == SelectSeq(live, LAMBDA t : t.merchantName = k)
        total(k) == SumOf(group(k), SignedMagnitude)
        chargeCount(k) == Len(SelectSeq(group(k), LAMBDA t : ~t.isRefund))
        entries == [i \in 1..Len(keys) |->
                      [merchantName |-> keys[i],
                       total |-> Round2(Max(0, total(keys[i]))),
                       count |-> chargeCount(keys[i]),
                       averageTransaction |->
                           IF chargeCount(keys[i]) > 0
                           THEN RoundDiv2(Max(0, total(keys[i])), chargeCount(keys[i]))
                           ELSE 0]]
    IN  StableSort(SelectSeq(entries, LAMBDA m : m.total > 0),
                   LAMBDA a, b : a.total < b.total)

calculateMerchantTotals(ts) ==
    LET live == SelectSeq(ts, NotPayment)
        keys == MapKeys(live, LAMBDA t : t.merchantName)
        group(k) == SelectSeq(live, LAMBDA t : t.merchantName = k)
        total(k) == SumOf(group(k), SignedMagnitude)
        chargeCount(k) == Len(SelectSeq(group(k), LAMBDA t : ~t.isRefund))
        entries == [i \in 1..Len(keys) |->
                      [merchantName |-> keys[i],
                       total |-> Round2(Max(0, total(keys[i]))),
                       count |-> chargeCount(keys[i]),
                       averageTransaction |->
                           IF chargeCount(keys[i]) > 0
                           THEN RoundDiv2(Max(0, total(keys[i])), chargeCount(keys[i]))
                           ELSE 0]]
    IN  StableSort(SelectSeq(entries, LAMBDA m : m.total > 0),
                   LAMBDA a, b : a.total > b.total)

calculateMonthlySpending(ts) ==
    LET live == SelectSeq(ts, NotPayment)
        monthKey == [i \in 1..Len(live) |-> getMonthKey(live[i].parsedDate)]
        first == SelectSeq([i \in 1..Len(live) |-> i],
                           LAMBDA i : \A j \in 1..(i - 1) : monthKey[j] # monthKey[i])
        group(k) == SelectSeq([i \in 1..Len(live) |-> i], LAMBDA i : monthKey[i] = k)
        entries == [p \in 1..Len(first) |->
                      LET g == group(monthKey[first[p]])
                      IN  [month |-> monthKey[first[p]],
                           monthLabel |-> getMonthLabel(monthKey[first[p]]),
                           total |-> Round2(Max(0, Sum([x \in 1..Len(g) |->
                                                           SignedMagnitude(live[g[x]])]))),
                           count |-> Len(g)]]
    IN  StableSort(entries, LAMBDA a, b : localeLess(a.month, b.month))

\* a + b and Math.round(x * 100) / 100 on numbers that may be NaN
NumPlus(a, b) == IF a.nan \/ b.nan THEN NaN ELSE Num(a.v + b.v)
NumRound2(a) == IF a.nan THEN NaN ELSE Num(Round2(a.v))

RECURSIVE NumSum(_)
NumSum(seq) == IF seq = <<>> THEN Num(0) ELSE NumPlus(Head(seq), NumSum(Tail(seq)))

\* an empty foreign-spend summary that counts one transaction
EmptyForeignSpendCountingOne ==
    [totalGBP |-> 0, totalCommission |-> 0, transactionCount |-> 1, byCurrency |-> <<>>]

EmptyForeignSpend ==
    [totalGBP |-> 0, totalCommission |-> 0, transactionCount |-> 0, byCurrency |-> <<>>]

\* calculateForeignSpend without the exclusion of refunds
calculateForeignSpendWithRefunds(ts) ==
    LET foreignTransactions ==
            SelectSeq(ts, LAMBDA t : t.foreignCurrency # Null)
        fc(t) == t.foreignCurrency[1]
        keys == MapKeys(foreignTransactions, LAMBDA t : fc(t).currencyCode)
        group(k) == SelectSeq(foreignTransactions, LAMBDA t : fc(t).currencyCode = k)
        byCurrency ==
            [i \in 1..Len(keys) |->
                LET g == group(keys[i])
                IN  [currencyCode |-> keys[i],
                     currency |-> fc(g[Len(g)]).currency,
                     totalForeign |-> NumRound2(NumSum([j \in 1..Len(g) |-> fc(g[j]).foreignAmount])),
                     totalGBP |-> Round2(SumOf(g, LAMBDA t : t.absoluteAmount)),
                     transactionCount |-> Len(g)]]
    IN  IF Len(foreignTransactions) = 0 THEN EmptyForeignSpend
        ELSE [totalGBP |-> Round2(SumOf(foreignTransactions, LAMBDA t : t.absoluteAmount)),
              totalCommission |->
                  Round2(SumOf(foreignTransactions, LAMBDA t : OrZero(fc(t).commission))),
              transactionCount |-> Len(foreignTransactions),
              byCurrency |-> StableSort(byCurrency, LAMBDA a, b : a.totalGBP > b.totalGBP)]

calculateForeignSpend(ts) ==
    LET foreignTransactions ==
            SelectSeq(ts, LAMBDA t : t.foreignCurrency # Null /\ ~t.isRefund)
        fc(t) == t.foreignCurrency[1]
        keys == MapKeys(foreignTransactions, LAMBDA t : fc(t).currencyCode)
        group(k) == SelectSeq(foreignTransactions, LAMBDA t : fc(t).currencyCode = k)
        byCurrency ==
            [i \in 1..Len(keys) |->
                LET g == group(keys[i])
                IN  [currencyCode |-> keys[i],
                     currency |-> fc(g[Len(g)]).currency,
                     totalForeign |-> NumRound2(NumSum([j \in 1..Len(g) |-> fc(g[j]).foreignAmount])),
                     totalGBP |-> Round2(SumOf(g, LAMBDA t : t.absoluteAmount)),
                     transactionCount |-> Len(g)]]
    IN  IF Len(foreignTransactions) = 0 THEN EmptyForeignSpend
        ELSE [totalGBP |-> Round2(SumOf(foreignTransactions, LAMBDA t : t.absoluteAmount)),
              totalCommission |->
                  Round2(SumOf(foreignTransactions, LAMBDA t : OrZero(fc(t).commission))),
              transactionCount |-> Len(foreignTransactions),
              byCurrency |-> StableSort(byCurrency, LAMBDA a, b : a.totalGBP > b.totalGBP)]

\* ReduceMax that replaces max on an equal value too, so that the last of the
\* largest wins
RECURSIVE ReduceMaxKeepingLast(_, _, _)
ReduceMaxKeepingLast(seq, max, field) ==
    IF seq = <<>> THEN max
    ELSE ReduceMaxKeepingLast(Tail(seq),
                   IF Head(seq)[field] >= (IF max = Null THEN 0 ELSE max[1][field])
                   THEN Some(Head(seq)) ELSE max,
                   field)

\* charges.reduce((max, t) => t.absoluteAmount > (max?.absoluteAmount || 0) ? t : max, null)
RECURSIVE ReduceMax(_, _, _)
ReduceMax(seq, max, field) ==
    IF seq = <<>> THEN max
    ELSE ReduceMax(Tail(seq),
                   IF Head(seq)[field] > (IF max = Null THEN 0 ELSE max[1][field])
                   THEN Some(Head(seq)) ELSE max,
                   field)

SubSeqTo(seq, n) == SubSeq(seq, 1, IF Len(seq) < n THEN Len(seq) ELSE n)

TopN == 10

\* calculateWrappedStats with the date range taken over the transactions that
\* are not payments
calculateWrappedStatsDatingPurchases(ts) ==
    IF Len(ts) = 0
    THEN [totalSpent |-> 0, totalRefunds |-> 0, netSpending |-> 0,
          transactionCount |-> 0, averageTransaction |-> 0,
          biggestPurchase |-> Null, mostFrequentMerchant |-> Null,
          topCategories |-> <<>>, topMerchants |-> <<>>, monthlySpending |-> <<>>,
          uniqueMerchants |-> 0,
          dateRange |-> [start |-> Null, end |-> Null],
          foreignSpend |-> EmptyForeignSpend]
    ELSE LET purchaseTransactions == SelectSeq(ts, NotPayment)
             charges == SelectSeq(purchaseTransactions, LAMBDA t : ~t.isRefund)
             refunds == SelectSeq(purchaseTransactions, LAMBDA t : t.isRefund)
             totalSpent == SumOf(charges, LAMBDA t : t.absoluteAmount)
             totalRefunds == SumOf(refunds, LAMBDA t : t.absoluteAmount)
             topCategories == calculateCategoryTotals(purchaseTransactions)
             topMerchants == calculateMerchantTotals(purchaseTransactions)
             sortedByDate == StableSort(purchaseTransactions,
                                       LAMBDA a, b : a.parsedDate.day < b.parsedDate.day)
         IN  [totalSpent |-> Round2(totalSpent),
              totalRefunds |-> Round2(totalRefunds),
              netSpending |-> Round2(totalSpent - totalRefunds),
              transactionCount |-> Len(purchaseTransactions),
              averageTransaction |->
                  IF Len(charges) > 0 THEN RoundDiv2(totalSpent, Len(charges)) ELSE 0,
              biggestPurchase |-> ReduceMax(charges, Null, "absoluteAmount"),
              mostFrequentMerchant |-> ReduceMax(topMerchants, Null, "count"),
              topCategories |-> SubSeqTo(topCategories, TopN),
              topMerchants |-> SubSeqTo(topMerchants, TopN),
              monthlySpending |-> calculateMonthlySpending(purchaseTransactions),
              uniqueMerchants |->
                  Cardinality({purchaseTransactions[i].merchantName :
                                  i \in DOMAIN purchaseTransactions}),
              dateRange |->
                  IF Len(sortedByDate) = 0 THEN [start |-> Null, end |-> Null]
                  ELSE [start |-> Some(sortedByDate[1].parsedDate),
                        end |-> Some(sortedByDate[Len(sortedByDate)].parsedDate)],
              foreignSpend |-> calculateForeignSpend(purchaseTransactions)]

\* calculateWrappedStats with netSpending floored at zero
calculateWrappedStatsFlooringNet(ts) ==
    IF Len(ts) = 0
    THEN [totalSpent |-> 0, totalRefunds |-> 0, netSpending |-> 0,
          transactionCount |-> 0, averageTransaction |-> 0,
          biggestPurchase |-> Null, mostFrequentMerchant |-> Null,
          topCategories |-> <<>>, topMerchants |-> <<>>, monthlySpending |-> <<>>,
          uniqueMerchants |-> 0,
          dateRange |-> [start |-> Null, end |-> Null],
          foreignSpend |-> EmptyForeignSpend]
    ELSE LET purchaseTransactions == SelectSeq(ts, NotPayment)
             charges == SelectSeq(purchaseTransactions, LAMBDA t : ~t.isRefund)
             refunds == SelectSeq(purchaseTransactions, LAMBDA t : t.isRefund)
             totalSpent == SumOf(charges, LAMBDA t : t.absoluteAmount)
             totalRefunds == SumOf(refunds, LAMBDA t : t.absoluteAmount)
             topCategories == calculateCategoryTotals(purchaseTransactions)
             topMerchants == calculateMerchantTotals(purchaseTransactions)
             sortedByDate == StableSort(ts, LAMBDA a, b : a.parsedDate.day < b.parsedDate.day)
         IN  [totalSpent |-> Round2(totalSpent),
              totalRefunds |-> Round2(totalRefunds),
              netSpending |-> Max(0, Round2(totalSpent - totalRefunds)),
              transactionCount |-> Len(purchaseTransactions),
              averageTransaction |->
                  IF Len(charges) > 0 THEN RoundDiv2(totalSpent, Len(charges)) ELSE 0,
              biggestPurchase |-> ReduceMax(charges, Null, "absoluteAmount"),
              mostFrequentMerchant |-> ReduceMax(topMerchants, Null, "count"),
              topCategories |-> SubSeqTo(topCategories, TopN),
              topMerchants |-> SubSeqTo(topMerchants, TopN),
              monthlySpending |-> calculateMonthlySpending(purchaseTransactions),
              uniqueMerchants |->
                  Cardinality({purchaseTransactions[i].merchantName :
                                  i \in DOMAIN purchaseTransactions}),
              dateRange |-> [start |-> Some(sortedByDate[1].parsedDate),
                             end |-> Some(sortedByDate[Len(sortedByDate)].parsedDate)],
              foreignSpend |-> calculateForeignSpend(purchaseTransactions)]

calculateWrappedStats(ts) ==
    IF Len(ts) = 0
    THEN [totalSpent |-> 0, totalRefunds |-> 0, netSpending |-> 0,
          transactionCount |-> 0, averageTransaction |-> 0,
          biggestPurchase |-> Null, mostFrequentMerchant |-> Null,
          topCategories |-> <<>>, topMerchants |-> <<>>, monthlySpending |-> <<>>,
          uniqueMerchants |-> 0,
          dateRange |-> [start |-> Null, end |-> Null],
          foreignSpend |-> EmptyForeignSpend]
    ELSE LET purchaseTransactions == SelectSeq(ts, NotPayment)
             charges == SelectSeq(purchaseTransactions, LAMBDA t : ~t.isRefund)
             refunds == SelectSeq(purchaseTransactions, LAMBDA t : t.isRefund)
             totalSpent == SumOf(charges, LAMBDA t : t.absoluteAmount)
             totalRefunds == SumOf(refunds, LAMBDA t : t.absoluteAmount)
             topCategories == calculateCategoryTotals(purchaseTransactions)
             topMerchants == calculateMerchantTotals(purchaseTransactions)
             sortedByDate == StableSort(ts, LAMBDA a, b : a.parsedDate.day < b.parsedDate.day)
         IN  [totalSpent |-> Round2(totalSpent),
              totalRefunds |-> Round2(totalRefunds),
              netSpending |-> Round2(totalSpent - totalRefunds),
              transactionCount |-> Len(purchaseTransactions),
              averageTransaction |->
                  IF Len(charges) > 0 THEN RoundDiv2(totalSpent, Len(charges)) ELSE 0,
              biggestPurchase |-> ReduceMax(charges, Null, "absoluteAmount"),
              mostFrequentMerchant |-> ReduceMax(topMerchants, Null, "count"),
              topCategories |-> SubSeqTo(topCategories, TopN),
              topMerchants |-> SubSeqTo(topMerchants, TopN),
              monthlySpending |-> calculateMonthlySpending(purchaseTransactions),
              uniqueMerchants |->
                  Cardinality({purchaseTransactions[i].merchantName :
                                  i \in DOMAIN purchaseTransactions}),
              dateRange |-> [start |-> Some(sortedByDate[1].parsedDate),
                             end |-> Some(sortedByDate[Len(sortedByDate)].parsedDate)],
              foreignSpend |-> calculateForeignSpend(purchaseTransactions)]

(***************************************************************************)
(* Inputs.  A statement file is described by its columns (the header text  *)
(* as written and the field the column carries) and its data rows (one     *)
(* record of cell texts per non-empty line); CsvOf lays it out as the      *)
(* header cells and row cells Papa reads.                                  *)
(***************************************************************************)
Col(name, role) == [name |-> name, role |-> role]

CsvOf(f) ==
    [quotes |-> f.quotes,
     headers |-> [i \in DOMAIN f.columns |-> f.columns[i].name],
     rows |-> [r \in DOMAIN f.rows |->
                 [i \in DOMAIN f.columns |-> f.rows[r][f.columns[i].role]]]]

Row(date, description, amount, details, reference, category) ==
    [date |-> date, description |-> description, amount |-> amount,
     details |-> details, reference |-> reference, category |-> category]

UKColumns ==
    <<Col("Date", "date"), Col("Description", "description"), Col("Amount", "amount"),
      Col("Extended Details", "details"), Col("Reference", "reference"),
      Col("Category", "category")>>

MexicoColumns ==
    <<Col("Fecha", "date"), Col("Descripción", "description"), Col("Importe", "amount")>>

\* the header texts of cols rewritten by F
Recase(cols, F(_)) == [i \in DOMAIN cols |-> Col(F(cols[i].name), cols[i].role)]

HeaderChoices ==
    {UKColumns,
     Recase(UKColumns, toUpperCase),
     Recase(UKColumns, LAMBDA n : " " \o n \o " "),
     Recase(UKColumns, LAMBDA n : IF n = "Reference" THEN "REFERENCE" ELSE n),
     MexicoColumns,
     Recase(MexicoColumns, toLowerCase),
     MexicoColumns \o <<Col("Referencia", "reference")>>,
     <<Col("Fecha de Compra", "date"), Col("Descripción", "description"),
       Col("Importe", "amount")>>,
     <<Col("Datum", "date"), Col("Beschreibung", "description"), Col("Betrag", "amount")>>,
     <<Col("Date", "date"), Col("Description", "description"), Col("Amount", "amount")>>}

ForeignDetails ==
    "Foreign Spend Amount: 12.00 UNITED STATES DOLLAR Commission Amount: 0.27 Currency Exchange Rate: 1.3363"

ParseRows ==
    {Row("30/12/2025", "TESCO PETROL 3731   LONDON", "59.25", "", "'AT1'", "General Purchases-Fuel"),
     Row("29/12/2025", "PAYMENT RECEIVED - THANK YOU", "-100.00", "", "", ""),
     Row("28/12/2025", "AMAZON.CO.UK*REFUND", "-12.50", ForeignDetails, "'AT1'", "General Purchases-Online"),
     Row("28/12/2025", "COSTA COFFEE", "3.10", "", "28/12/2025-1", "Entertainment-Restaurants"),
     Row("30/12/2025", "TESCO PETROL 3731 LONDON", "59.25", "", "", "General Purchases-Fuel"),
     Row("30/12", "TESCO", "1.00", "", "", "Other"),
     Row("30/12/2025/7", "TESCO", "2.00", "", "", "Other"),
     Row("ab/12/2025", "TESCO", "3.00", "", "", "Other"),
     Row("", "TESCO", "4.00", "", "", "Other"),
     Row("29 Dec 2025", "UBER EATS", "250.00", "", "", ""),
     Row("27 Dec 2025", "GRACIAS POR SU PAGO", "-500", "", "", ""),
     Row("28 Foo 2025", "OXXO", "45.50", "", "", ""),
     Row("29th Dec 2025", "PEMEX", "-80", "", "", "")}

MaxRows == 2

RowSeqs(n) == UNION {[1..k -> ParseRows] : k \in 0..n}

ParseFiles ==
    {[quotes |-> q, columns |-> c, rows |-> rs] :
        q \in BOOLEAN, c \in HeaderChoices, rs \in RowSeqs(MaxRows)}

(***************************************************************************)
(* transaction-store.ts                                                    *)
(***************************************************************************)
NoValidTransactions == "No valid transactions found in the CSV file"
FileReadError == "The file could not be read"

\* stats.ts setCurrencyConfig: the module-level currency and locale
setCurrencyConfig(cur, locale) ==
    /\ currentCurrency' = cur
    /\ currentLocale' = locale

StoreInit ==
    /\ transactions = <<>>
    /\ stats = Null
    /\ fileName = Null
    /\ format = Null
    /\ currency = "GBP"
    /\ currencyLocale = "en-GB"
    /\ isLoading = FALSE
    /\ error = Null
    /\ currentCurrency = "GBP"
    /\ currentLocale = "en-GB"

ParseIdle ==
    /\ pfile = [quotes |-> FALSE, columns |-> <<>>, rows |-> <<>>]
    /\ ppc = "idle"
    /\ presult = Null

TransformIdle ==
    /\ trow = Row("", "", "", "", "", "")
    /\ tindex = 0
    /\ tpc = "idle"
    /\ tout = Null

DetailsIdle ==
    /\ fparts = [prefix |-> "", marker |-> "", amount |-> "", currency |-> "",
                 commission |-> Null, rate |-> Null]
    /\ fpc = "idle"
    /\ finfo = Null

StatsIdle ==
    /\ slist = <<>>
    /\ spc = "idle"
    /\ sstats = Null

(***************************************************************************)
(* ParseSpec: one call of parseAmexCSV on a file drawn from ParseFiles     *)
(***************************************************************************)
ParseInit ==
    /\ pfile \in ParseFiles
    /\ ppc = "start"
    /\ presult = Null
    /\ TransformIdle
    /\ StoreInit
    /\ calls = <<>>
    /\ DetailsIdle
    /\ StatsIdle

\* Papa's complete callback: the promise settles
ParseComplete ==
    /\ ppc = "start"
    /\ presult' = Some(parseAmexCSV(CsvOf(pfile)))
    /\ ppc' = "done"
    /\ UNCHANGED <<pfile, transformVars, storeVars, detailsVars, statsVars>>

ParseNext == ParseComplete

ParseSpec == ParseInit /\ [][ParseNext]_vars

(***************************************************************************)
(* TransformSpec: one row of results.data, read as a row of either dialect *)
(***************************************************************************)
TransformDates ==
    {"30/12/2025", "30/12", "30/12/2025/7", "ab/12/2025",
     "29 Dec 2025", "29 Foo 2025", "29th Dec 2025", ""}

TransformDescriptions ==
    {"TESCO PETROL 3731   LONDON", "PAYMENT RECEIVED - THANK YOU", "gracias por su pago",
     "UBER EATS MEXICO", "REFUND FOR PAYMENT RECEIVED"}

TransformAmounts == {"59.25", "-12.00", "", "abc"}

TransformReferences == {"", "'AT253640023000010'", "AT'2"}

TransformCategories ==
    {"General Purchases-Fuel", "", "Travel-Air-Fare", "-Fuel", " Entertainment - Restaurants "}

TransformDetails == {"", ForeignDetails}

TransformRows ==
    {Row(d, ds, a, x, r, c) :
        d \in TransformDates, ds \in TransformDescriptions, a \in TransformAmounts,
        x \in TransformDetails, r \in TransformReferences, c \in TransformCategories}

MaxIndex == 1

\* the Papa row object of row under the header cols
RowObject(cols, row) == PapaData(CsvOf([quotes |-> FALSE, columns |-> cols, rows |-> <<row>>]))[1]

TransformInit ==
    /\ trow \in TransformRows
    /\ tindex \in 0..MaxIndex
    /\ tpc = "start"
    /\ tout = Null
    /\ ParseIdle
    /\ StoreInit
    /\ calls = <<>>
    /\ DetailsIdle
    /\ StatsIdle

\* parseAmexCSV's map callback of the UK branch
TransformUK ==
    /\ tpc = "start"
    /\ tout' = Some(transformTransaction(UKRawTransaction(RowObject(UKColumns, trow)), tindex))
    /\ tpc' = "uk"
    /\ UNCHANGED <<trow, tindex, parseVars, storeVars, detailsVars, statsVars>>

\* parseAmexCSV's map callback of the Mexico branch
TransformMexico ==
    /\ tpc = "start"
    /\ tout' = Some(transformMexicoTransaction(RowObject(MexicoColumns, trow), tindex))
    /\ tpc' = "mexico"
    /\ UNCHANGED <<trow, tindex, parseVars, storeVars, detailsVars, statsVars>>

TransformNext == TransformUK \/ TransformMexico

TransformSpec == TransformInit /\ [][TransformNext]_vars

(***************************************************************************)
(* CategorySpec: the Mexico branch on rows whose descriptions are made of  *)
(* one or two merchant words                                               *)
(***************************************************************************)
CategoryWords ==
    {"UBER EATS", "DIDI FOOD", "Oxxo", "UBER", "NETFLIX", "MERCADOLIBRE", "APPLE",
     "MUSIC", "HOTEL", "INTERNET", "FARMACIA"}

CategoryDescriptions ==
    CategoryWords \cup {a \o " " \o b : a, b \in CategoryWords}

CategoryRows == {Row("29 Dec 2025", d, "250.00", "", "", "") : d \in CategoryDescriptions}

CategoryInit ==
    /\ trow \in CategoryRows
    /\ tindex = 0
    /\ tpc = "start"
    /\ tout = Null
    /\ ParseIdle
    /\ StoreInit
    /\ calls = <<>>
    /\ DetailsIdle
    /\ StatsIdle

CategoryNext == TransformMexico

CategorySpec == CategoryInit /\ [][CategoryNext]_vars

(***************************************************************************)
(* StoreSpec: the store under loadCSV calls that may overlap, and          *)
(* clearData.  A call runs in three steps, one per turn of the event loop: *)
(* the synchronous start up to `await file.text()`, the turn in which the  *)
(* text arrives and parseAmexCSV runs (Papa parses a string synchronously, *)
(* so the promise is settled in that turn), and the continuation after     *)
(* `await parseAmexCSV(content)`, which is the rest of the try block or    *)
(* the catch block.                                                        *)
(***************************************************************************)
File(name, columns, rows, quotes) ==
    [name |-> name, content |-> [quotes |-> quotes, columns |-> columns, rows |-> rows]]

StoreFiles ==
    {File("uk.csv", UKColumns,
          <<Row("30/12/2025", "TESCO PETROL 3731   LONDON", "59.25", "", "'AT1'", "General Purchases-Fuel"),
            Row("28/11/2025", "AMAZON.CO.UK*REFUND", "-12.50", "", "'AT2'", "General Purchases-Online")>>,
          FALSE),
     File("uk-january.csv", UKColumns,
          <<Row("15/01/2025", "COSTA COFFEE", "3.10", ForeignDetails, "", "Entertainment-Restaurants")>>,
          FALSE),
     File("mx.csv", MexicoColumns,
          <<Row("29 Dec 2025", "UBER EATS", "250.00", "", "", ""),
            Row("27 Dec 2025", "GRACIAS POR SU PAGO", "-500", "", "", "")>>,
          FALSE),
     File("other.csv",
          <<Col("Datum", "date"), Col("Beschreibung", "description"), Col("Betrag", "amount")>>,
          <<Row("30.12.2025", "REWE", "12,00", "", "", "")>>,
          FALSE),
     File("header-only.csv", UKColumns, <<>>, FALSE),
     File("bad-dates.csv", MexicoColumns,
          <<Row("28 Foo 2025", "OXXO", "45.50", "", "", "")>>,
          FALSE),
     File("quotes.csv", UKColumns,
          <<Row("30/12/2025", "TESCO", "1.00", "", "", "Other")>>,
          TRUE)}

MaxCalls == 2

Calls == 1..MaxCalls

\* superseded records that, since the call started, another loadCSV or a
\* clearData has been requested
IdleCall == [pc |-> "idle", file |-> Null, result |-> Null, superseded |-> FALSE]

\* the calls once a further action has been requested
Supersede(cs) == [d \in Calls |-> [cs[d] EXCEPT !.superseded = (cs[d].pc # "idle")]]

StoreSpecInit ==
    /\ StoreInit
    /\ calls = [c \in Calls |-> IdleCall]
    /\ ParseIdle
    /\ TransformIdle
    /\ DetailsIdle
    /\ StatsIdle

\* loadCSV up to its first await: set({ isLoading: true, error: null })
loadCSV(c, file) ==
    /\ calls[c].pc = "idle"
    /\ isLoading' = TRUE
    /\ error' = Null
    /\ calls' = [Supersede(calls) EXCEPT ![c] = [pc |-> "reading", file |-> Some(file),
                                                result |-> Null, superseded |-> FALSE]]
    /\ UNCHANGED <<transactions, stats, fileName, format, currency, currencyLocale,
                   currentCurrency, currentLocale>>

\* what parseAmexCSV(content) settles with for the content of each file
ParsedContent == [f \in StoreFiles |-> parseAmexCSV(CsvOf(f.content))]

\* file.text() resolves and parseAmexCSV(content) is called
FileText(c) ==
    /\ calls[c].pc = "reading"
    /\ calls' = [calls EXCEPT ![c].pc = "parsing",
                              ![c].result = Some(ParsedContent[calls[c].file[1]])]
    /\ UNCHANGED <<transactions, stats, fileName, format, currency, currencyLocale,
                   isLoading, error, currentCurrency, currentLocale>>

\* file.text() rejects: the call goes on in its catch block
FileTextRejects(c) ==
    /\ calls[c].pc = "reading"
    /\ calls' = [calls EXCEPT ![c].pc = "parsing",
                              ![c].result = Some(Rejected(FileReadError))]
    /\ UNCHANGED <<transactions, stats, fileName, format, currency, currencyLocale,
                   isLoading, error, currentCurrency, currentLocale>>

\* LoadError without the check for an empty transaction list
LoadErrorIgnoringEmpty(result) ==
    IF result.settled = "rejected" THEN Some(result.message) ELSE Null

\* the error the try block of loadCSV ends with, <<>> when it ends normally
LoadError(result) ==
    IF result.settled = "rejected" THEN Some(result.message)
    ELSE IF Len(result.transactions) = 0 THEN Some(NoValidTransactions)
    ELSE Null

\* LoadSucceeds that leaves format as it was
LoadSucceedsKeepingFormat(c) ==
    /\ calls[c].pc = "parsing"
    /\ LoadError(calls[c].result[1]) = Null
    /\ LET result == calls[c].result[1]
       IN  /\ setCurrencyConfig(result.currency, result.currencyLocale)
           /\ transactions' = result.transactions
           /\ stats' = Some(calculateWrappedStats(result.transactions))
           /\ fileName' = Some(calls[c].file[1].name)
           /\ currency' = result.currency
           /\ currencyLocale' = result.currencyLocale
           /\ isLoading' = FALSE
           /\ error' = Null
    /\ calls' = [calls EXCEPT ![c] = IdleCall]
    /\ UNCHANGED format

\* the rest of the try block: setCurrencyConfig, calculateWrappedStats, set
LoadSucceeds(c) ==
    /\ calls[c].pc = "parsing"
    /\ LoadError(calls[c].result[1]) = Null
    /\ LET result == calls[c].result[1]
       IN  /\ setCurrencyConfig(result.currency, result.currencyLocale)
           /\ transactions' = result.transactions
           /\ stats' = Some(calculateWrappedStats(result.transactions))
           /\ fileName' = Some(calls[c].file[1].name)
           /\ format' = result.format
           /\ currency' = result.currency
           /\ currencyLocale' = result.currencyLocale
           /\ isLoading' = FALSE
           /\ error' = Null
    /\ calls' = [calls EXCEPT ![c] = IdleCall]

\* a catch block that also drops the loaded data
LoadFailsClearing(c) ==
    /\ calls[c].pc = "parsing"
    /\ LoadError(calls[c].result[1]) # Null
    /\ isLoading' = FALSE
    /\ error' = LoadError(calls[c].result[1])
    /\ calls' = [calls EXCEPT ![c] = IdleCall]
    /\ transactions' = <<>>
    /\ stats' = Null
    /\ fileName' = Null
    /\ format' = Null
    /\ UNCHANGED <<currency, currencyLocale, currentCurrency, currentLocale>>

\* the catch block: set({ isLoading: false, error: error.message })
LoadFails(c) ==
    /\ calls[c].pc = "parsing"
    /\ LoadError(calls[c].result[1]) # Null
    /\ isLoading' = FALSE
    /\ error' = LoadError(calls[c].result[1])
    /\ calls' = [calls EXCEPT ![c] = IdleCall]
    /\ UNCHANGED <<transactions, stats, fileName, format, currency, currencyLocale,
                   currentCurrency, currentLocale>>

\* clearData that leaves the module-level currency configuration alone
clearDataKeepingCurrencyConfig ==
    /\ transactions' = <<>>
    /\ stats' = Null
    /\ fileName' = Null
    /\ format' = Null
    /\ currency' = "GBP"
    /\ currencyLocale' = "en-GB"
    /\ isLoading' = FALSE
    /\ error' = Null
    /\ calls' = Supersede(calls)
    /\ UNCHANGED <<currentCurrency, currentLocale>>

clearData ==
    /\ setCurrencyConfig("GBP", "en-GB")
    /\ transactions' = <<>>
    /\ stats' = Null
    /\ fileName' = Null
    /\ format' = Null
    /\ currency' = "GBP"
    /\ currencyLocale' = "en-GB"
    /\ isLoading' = FALSE
    /\ error' = Null
    /\ calls' = Supersede(calls)

StoreNext ==
    \/ \E c \in Calls : \E f \in StoreFiles : loadCSV(c, f) /\ UNCHANGED <<parseVars, transformVars, detailsVars, statsVars>>
    \/ \E c \in Calls : FileText(c) /\ UNCHANGED <<parseVars, transformVars, detailsVars, statsVars>>
    \/ \E c \in Calls : FileTextRejects(c) /\ UNCHANGED <<parseVars, transformVars, detailsVars, statsVars>>
    \/ \E c \in Calls : LoadSucceeds(c) /\ UNCHANGED <<parseVars, transformVars, detailsVars, statsVars>>
    \/ \E c \in Calls : LoadFails(c) /\ UNCHANGED <<parseVars, transformVars, detailsVars, statsVars>>
    \/ clearData /\ UNCHANGED <<parseVars, transformVars, detailsVars, statsVars>>

StoreSpec == StoreSpecInit /\ [][StoreNext]_vars

(***************************************************************************)
(* Properties of one transformed row (TransformSpec)                       *)
(***************************************************************************)
\* the description begins, in any letter case, with one of the payment phrases
MatchesPaymentPattern(description) ==
    \E i \in DOMAIN paymentPatterns :
        startsWith(toUpperCase(description), paymentPatterns[i])

\* C1: every enriched transaction is exactly one of purchase, refund and payment:
\* a description that matches a payment pattern makes it a payment and not a
\* refund, whatever the sign of the amount; otherwise a negative amount makes it
\* a refund; otherwise it is a purchase; isRefund and isPayment never hold together.
C1_ClassificationOrder ==
    tout # Null =>
        LET t == tout[1]
        IN  /\ MatchesPaymentPattern(trow.description) => t.isPayment /\ ~t.isRefund
            /\ ~MatchesPaymentPattern(trow.description) /\ t.amount < 0
                  => t.isRefund /\ ~t.isPayment
            /\ ~MatchesPaymentPattern(trow.description) /\ t.amount >= 0
                  => ~t.isRefund /\ ~t.isPayment
            /\ ~(t.isRefund /\ t.isPayment)

\* a row of each dialect with a payment description and a negative amount was
\* transformed into a payment
C1_NegativePaymentSeen ==
    /\ tout # Null
    /\ tout[1].amount < 0
    /\ MatchesPaymentPattern(trow.description)
    /\ tout[1].isPayment
    /\ tpc = "mexico"

\* C10: the category label is split on its first hyphen only: the sub-category is
\* the trimmed whole remainder after it, and with a non-empty sub-category
\* mainCategory + "-" + subCategory gives back the label up to trimming.
C10_SplitOnFirstHyphen ==
    tout # Null /\ KeepTransaction(tout[1]) =>
        LET t == tout[1]
            label == t.category
            i == IndexFrom(label, "-", 1)
            before == trim(SubSeq(label, 1, i - 1))
            after == trim(From(label, i + 1))
        IN  i > 0 =>
                /\ t.subCategory = after
                /\ t.subCategory # "" =>
                       t.mainCategory \o "-" \o t.subCategory = before \o "-" \o after

(***************************************************************************)
(* Properties of one parse (ParseSpec)                                     *)
(***************************************************************************)
\* the header texts of the file, trimmed and lower-cased
HeaderTexts(f) == {toLowerCase(trim(f.columns[i].name)) : i \in DOMAIN f.columns}

\* the dialect the header row stands for under the case-insensitive, trimmed
\* comparison: "uk", "mexico" or "none"
RecognizedDialect(f) ==
    IF {"date", "category"} \subseteq HeaderTexts(f) THEN "uk"
    ELSE IF {"fecha", "importe"} \subseteq HeaderTexts(f) THEN "mexico"
    ELSE "none"

\* the cell of data row r in the column that carries the field role, '' when the
\* file has no such column
CellOfRole(f, r, role) ==
    IF \E i \in DOMAIN f.columns : f.columns[i].role = role THEN f.rows[r][role] ELSE ""

\* the cell of data row r under the column whose trimmed header is exactly
\* header, '' when the file has no such column
CellUnder(f, r, header) ==
    IF \E i \in DOMAIN f.columns : trim(f.columns[i].name) = header
    THEN f.rows[r][(CHOOSE c \in {f.columns[i] : i \in DOMAIN f.columns} :
                       trim(c.name) = header).role]
    ELSE ""

AllDigits(s) == s # "" /\ \A i \in 1..Len(s) : IsDigit(CharAt(s, i))

\* three fields separated by '/', each a run of digits
WellFormedUKDate(s) ==
    LET parts == split(s, "/")
    IN  Len(parts) = 3 /\ \A i \in 1..3 : AllDigits(parts[i])

\* day, month name and year separated by single spaces
WellFormedMexicoDate(s) ==
    LET parts == split(s, " ")
    IN  /\ Len(parts) = 3
        /\ AllDigits(parts[1])
        /\ \E m \in DOMAIN monthNames : monthNames[m] = parts[2]
        /\ AllDigits(parts[3])

WellFormedDate(dialect, s) ==
    IF dialect = "mexico" THEN WellFormedMexicoDate(s) ELSE WellFormedUKDate(s)

ParseDone == ppc = "done"
ParseOut == presult[1].transactions

\* C2: headers holding 'date' and 'category' (trimmed, lower-cased) give the uk
\* dialect; otherwise headers holding 'fecha' and 'importe' give the mexico
\* dialect; otherwise the parse is rejected with the format-not-recognized error
\* and no transaction list is delivered.  (A file in which Papa reports a
\* Quotes error is rejected before the headers are looked at.)
C2_DialectDetection ==
    ParseDone =>
        LET dialect == RecognizedDialect(pfile)
            r == presult[1]
        IN  /\ dialect = "none" =>
                  /\ r.settled = "rejected"
                  /\ r.transactions = <<>>
                  /\ r.format = Null
                  /\ ~pfile.quotes => r.message = UnrecognizedFormat
            /\ dialect # "none" /\ ~pfile.quotes =>
                  r.settled = "resolved" /\ r.format = Some(dialect)

\* a file with data rows and headers of neither dialect was rejected as
\* unrecognized
C2_UnrecognizedRejected ==
    /\ ParseDone
    /\ RecognizedDialect(pfile) = "none"
    /\ Len(pfile.rows) > 0
    /\ presult[1].settled = "rejected"
    /\ presult[1].message = UnrecognizedFormat

\* C3: whenever the header row is recognized under the case-insensitive, trimmed
\* comparison, every data row with a well-formed date cell is in the parsed list
\* with its date, amount, description and category taken from its columns.
C3_RecognizedHeadersKeepRows ==
    ParseDone /\ ~pfile.quotes /\ RecognizedDialect(pfile) # "none" =>
        \A r \in DOMAIN pfile.rows :
            WellFormedDate(RecognizedDialect(pfile), CellOfRole(pfile, r, "date")) =>
                \E k \in DOMAIN ParseOut :
                    /\ ParseOut[k].date = CellOfRole(pfile, r, "date")
                    /\ ParseOut[k].description = CellOfRole(pfile, r, "description")
                    /\ ParseOut[k].amount = OrZero(parseFloat(CellOfRole(pfile, r, "amount")))
                    /\ RecognizedDialect(pfile) = "uk" =>
                          ParseOut[k].category =
                              (IF CellOfRole(pfile, r, "category") = "" THEN "Other"
                               ELSE CellOfRole(pfile, r, "category"))

\* C4: in a file with the headers of a dialect as the issuer writes them, the
\* parsed list is exactly the rows whose date cell is well formed, in source order.
C4_MalformedDatesDropped ==
    ParseDone /\ ~pfile.quotes /\ pfile.columns \in {UKColumns, MexicoColumns} =>
        LET dialect == RecognizedDialect(pfile)
            kept == SelectSeq(pfile.rows, LAMBDA row : WellFormedDate(dialect, row.date))
        IN  /\ presult[1].settled = "resolved"
            /\ [k \in DOMAIN ParseOut |-> <<ParseOut[k].date, ParseOut[k].description>>]
                   = [k \in DOMAIN kept |-> <<kept[k].date, kept[k].description>>]

\* the ways to read the parsed list as a subsequence of the data rows: the
\* strictly increasing maps from list positions to row numbers under which each
\* transaction has the date and description cells of its row
SourceMaps(f, out) ==
    {idx \in [DOMAIN out -> DOMAIN f.rows] :
        /\ \A j, k \in DOMAIN out : j < k => idx[j] < idx[k]
        /\ \A k \in DOMAIN out :
              /\ out[k].date = CellOfRole(f, idx[k], "date")
              /\ out[k].description = CellOfRole(f, idx[k], "description")}

\* the identifier the original statement gives data row r
IdByReferenceField(f, r) ==
    IF CellOfRole(f, r, "reference") # ""
    THEN removeAll(CellOfRole(f, r, "reference"), "'")
    ELSE CellOfRole(f, r, "date") \o "-" \o ToString(r - 1)

IdByDialect(f, r) ==
    IF RecognizedDialect(f) = "mexico" THEN "MX-" \o ToString(r - 1)
    ELSE IF CellUnder(f, r, "Reference") # ""
    THEN removeAll(CellUnder(f, r, "Reference"), "'")
    ELSE CellUnder(f, r, "Date") \o "-" \o ToString(r - 1)

C9_IdsUnique ==
    ParseDone /\ presult[1].settled = "resolved" =>
        \A j, k \in DOMAIN ParseOut : j # k => ParseOut[j].id # ParseOut[k].id

(***************************************************************************)
(* Properties of the store (StoreSpec)                                     *)
(***************************************************************************)
\* the data fields of the store and the module-level currency configuration
dataVars == <<transactions, stats, fileName, format, currency, currencyLocale,
              currentCurrency, currentLocale>>

\* call c holds the outcome of parseAmexCSV on a file whose header row is
\* recognized and in which Papa reports no Quotes error
ParsedRecognized(c) ==
    /\ calls[c].pc = "parsing"
    /\ calls[c].result[1] # Rejected(FileReadError)
    /\ RecognizedDialect(calls[c].file[1].content) # "none"
    /\ ~calls[c].file[1].content.quotes

ResolvedEmpty(result) == result.settled = "resolved" /\ result.transactions = <<>>

\* call c takes its last step in this transition
Settles(c) == calls[c].pc = "parsing" /\ calls'[c].pc = "idle"

C6_FailedLoadKeepsData ==
    [][\A c \in Calls :
          /\ calls'[c].pc # calls[c].pc
             /\ ~(Settles(c) /\ calls[c].result[1].settled = "resolved"
                              /\ calls[c].result[1].transactions # <<>>)
                => UNCHANGED dataVars
          /\ Settles(c) /\ calls[c].result[1].settled = "rejected"
                => error' = Some(calls[c].result[1].message) /\ isLoading' = FALSE
          /\ Settles(c) /\ ResolvedEmpty(calls[c].result[1])
                => error' = Some(NoValidTransactions) /\ isLoading' = FALSE]_vars

\* an unrecognized file failed after the Mexican statement had been loaded
C6_FailureAfterLoadSeen ==
    /\ error = Some(UnrecognizedFormat)
    /\ ~isLoading
    /\ fileName = Some("mx.csv")
    /\ transactions # <<>>
    /\ currentCurrency = "MXN"
    /\ \A c \in Calls : calls[c].pc = "idle"

\* what a successful load of each file delivers: the parse result of its
\* content and the stats computed from that result's transaction list
SuccessfulLoads ==
    LET outcome(f) == parseAmexCSV(CsvOf(f.content))
    IN  {[name |-> f.name,
          result |-> outcome(f),
          stats |-> calculateWrappedStats(outcome(f).transactions)] :
            f \in {g \in StoreFiles : outcome(g).settled = "resolved"}}

\* C7: the data fields are either all empty (no transactions, stats, fileName
\* and format null) or all those of one successful load of one file: its
\* non-empty transaction list, the stats computed from that list, its name,
\* format, currency and locale.
C7_AtomicResult ==
    \/ transactions = <<>> /\ stats = Null /\ fileName = Null /\ format = Null
    \/ /\ transactions # <<>>
       /\ \E load \in SuccessfulLoads :
             /\ transactions = load.result.transactions
             /\ stats = Some(load.stats)
             /\ fileName = Some(load.name)
             /\ format = load.result.format
             /\ currency = load.result.currency
             /\ currencyLocale = load.result.currencyLocale

\* the UK statement is loaded while a load of the Mexican one that started
\* earlier or later is still between parse and completion
C7_LoadedWhileAnotherInFlight ==
    /\ fileName = Some("uk.csv")
    /\ transactions # <<>>
    /\ \E c \in Calls : /\ calls[c].pc = "parsing"
                        /\ calls[c].file[1].name = "mx.csv"
                        /\ calls[c].result[1].settled = "resolved"

(***************************************************************************)
(* The petrol-station example (ParseSpec)                                  *)
(***************************************************************************)
\* the file with the uk header row and the one data row
\* '30/12/2025,<description>,59.25,,,,,,,,General Purchases-Fuel'
PetrolFile(description) ==
    [quotes |-> FALSE,
     columns |-> UKColumns,
     rows |-> <<Row("30/12/2025", description, "59.25", "", "", "General Purchases-Fuel")>>]

\* the parse delivered exactly one purchase of 59.25 on 30 December 2025 in
\* General Purchases / Fuel
OnePetrolPurchase ==
    /\ presult[1].settled = "resolved"
    /\ Len(ParseOut) = 1
    /\ ~ParseOut[1].isPayment /\ ~ParseOut[1].isRefund
    /\ ParseOut[1].parsedDate.valid
    /\ getFullYear(ParseOut[1].parsedDate) = 2025
    /\ getMonth(ParseOut[1].parsedDate) = 11
    /\ getDate(ParseOut[1].parsedDate) = 30
    /\ ParseOut[1].absoluteAmount = (5925 * Scale) \div 100
    /\ ParseOut[1].mainCategory = "General Purchases"
    /\ ParseOut[1].subCategory = "Fuel"

\* C11 as stated: the row with description 'TESCO PETROL 3731 LONDON' gives
\* one purchase of 59.25 on 2025-12-30 in General Purchases / Fuel whose
\* merchant name is 'TESCO PETROL'.
C11_PetrolMerchantCleaned ==
    ParseDone /\ pfile = PetrolFile("TESCO PETROL 3731 LONDON") =>
        OnePetrolPurchase /\ ParseOut[1].merchantName = "TESCO PETROL"

\* C11 as amended: the row with description 'TESCO PETROL 3731 LONDON' gives
\* one purchase of 59.25 on 2025-12-30 in General Purchases / Fuel whose
\* merchant name is the whole description, which has no run of two or more
\* spaces and does not end in digits; the same row with the town set off by
\* three spaces, 'TESCO PETROL 3731   LONDON', gives merchant 'TESCO PETROL'.
C11_PetrolMerchantBySpacing ==
    ParseDone =>
        /\ pfile = PetrolFile("TESCO PETROL 3731 LONDON") =>
              OnePetrolPurchase /\ ParseOut[1].merchantName = "TESCO PETROL 3731 LONDON"
        /\ (\E ref \in {"", "'AT1'"} :
               pfile = [PetrolFile("TESCO PETROL 3731   LONDON") EXCEPT !.rows[1].reference = ref]) =>
              OnePetrolPurchase /\ ParseOut[1].merchantName = "TESCO PETROL"

\* the single-spaced petrol row has been parsed
C11_SingleSpacedParsed ==
    /\ ParseDone
    /\ pfile = PetrolFile("TESCO PETROL 3731 LONDON")
    /\ Len(ParseOut) = 1
    /\ ParseOut[1].merchantName = "TESCO PETROL 3731 LONDON"

(***************************************************************************)
(* DetailsSpec: one call of parseForeignCurrency on an Extended Details    *)
(* text put together from a prefix, the foreign-spend marker, an amount, a *)
(* currency name, and the optional commission and exchange-rate fields     *)
(***************************************************************************)
DetailsPrefixes == {"", "Ref 4417"}
DetailsMarkers == {"Foreign Spend Amount:", "foreign spend amount:", ""}
DetailsAmounts == {"7.18", "1,234.56", "93,44", ""}
DetailsCurrencies == {"UNITED STATES DOLLAR", "EURO", "US$", ""}
DetailsCommissions == {Null, Some("0.16")}
DetailsRates == {Null, Some("1.3345")}

DetailsParts ==
    [prefix : DetailsPrefixes, marker : DetailsMarkers, amount : DetailsAmounts,
     currency : DetailsCurrencies, commission : DetailsCommissions, rate : DetailsRates]

\* the non-empty pieces separated by single spaces
RECURSIVE JoinWords(_)
JoinWords(pieces) ==
    IF pieces = <<>> THEN ""
    ELSE LET rest == JoinWords(Tail(pieces))
         IN  IF Head(pieces) = "" THEN rest
             ELSE IF rest = "" THEN Head(pieces)
             ELSE Head(pieces) \o " " \o rest

\* the Extended Details cell as the issuer lays it out
DetailsText(p) ==
    JoinWords(<<p.prefix, p.marker, p.amount, p.currency,
                IF p.commission = Null THEN "" ELSE "Commission Amount: " \o p.commission[1],
                IF p.rate = Null THEN "" ELSE "Currency Exchange Rate: " \o p.rate[1]>>)

DetailsInit ==
    /\ fparts \in DetailsParts
    /\ fpc = "start"
    /\ finfo = Null
    /\ ParseIdle
    /\ TransformIdle
    /\ StoreInit
    /\ calls = <<>>
    /\ StatsIdle

\* transformTransaction's call parseForeignCurrency(raw.extendedDetails)
ParseDetails ==
    /\ fpc = "start"
    /\ finfo' = parseForeignCurrency(DetailsText(fparts))
    /\ fpc' = "done"
    /\ UNCHANGED <<fparts, parseVars, transformVars, storeVars, statsVars>>

DetailsNext == ParseDetails

DetailsSpec == DetailsInit /\ [][DetailsNext]_vars

(***************************************************************************)
(* Properties of parseForeignCurrency (DetailsSpec)                        *)
(***************************************************************************)
\* the text has the marker followed by an amount and a currency name
HasCoreFields(p) ==
    /\ p.marker = "Foreign Spend Amount:"
    /\ p.amount # ""
    /\ p.currency # ""
    /\ \A i \in 1..Len(p.currency) :
          IsLetter(CharAt(p.currency, i)) \/ CharAt(p.currency, i) = " "

\* the number an optional field stands for, 0 when the field is absent
FieldOrZero(field) ==
    IF field = Null THEN Num(0) ELSE parseFloat(removeAll(field[1], ","))

\* C12: a text with the marker, an amount and a currency name gives a detail
\* record whose commission is that of the 'Commission Amount' field, 0 when
\* the field is absent, and whose exchange rate is that of the 'Currency
\* Exchange Rate' field, 0 when the field is absent, whichever of the two
\* fields is present; any other text gives no detail.
C12_OptionalFieldsDefaultToZero ==
    fpc = "done" =>
        IF HasCoreFields(fparts)
        THEN /\ finfo # Null
             /\ finfo[1].commission = FieldOrZero(fparts.commission)
             /\ finfo[1].exchangeRate = FieldOrZero(fparts.rate)
        ELSE finfo = Null

\* the same, leaving out the texts with an exchange rate but no commission
C12_ExceptRateWithoutCommission ==
    fpc = "done" /\ ~(fparts.commission = Null /\ fparts.rate # Null) =>
        C12_OptionalFieldsDefaultToZero

(***************************************************************************)
(* Amounts of one transformed row (TransformSpec)                          *)
(***************************************************************************)
\* the signed amount the cells of TransformAmounts stand for, a missing or
\* unparseable cell counting as 0
SignedAmountOfCell(cell) ==
    CASE cell = "59.25" -> (5925 * Scale) \div 100
      [] cell = "-12.00" -> -(12 * Scale)
      [] OTHER -> 0

\* C13: the amount of an enriched transaction of either dialect is the signed
\* decimal of its amount cell, 0 when the cell is missing or unparseable, and
\* absoluteAmount is its absolute value, hence never negative.
C13_AbsoluteAmount ==
    tout # Null =>
        /\ tout[1].amount = SignedAmountOfCell(trow.amount)
        /\ tout[1].absoluteAmount =
               (IF tout[1].amount < 0 THEN -tout[1].amount ELSE tout[1].amount)
        /\ tout[1].absoluteAmount >= 0

\* a uk row with a negative amount has been transformed
C13_NegativeAmountSeen ==
    /\ tout # Null
    /\ tpc = "uk"
    /\ tout[1].amount < 0
    /\ tout[1].absoluteAmount = -tout[1].amount

(***************************************************************************)
(* StatsSpec: one call of calculateWrappedStats, as loadCSV makes it, on   *)
(* the transaction list parsed from a uk statement.  The statement is      *)
(* either empty or the eleven-category LongStatement, followed by up to    *)
(* MaxExtra rows drawn from StatsRows.                                     *)
(***************************************************************************)
EuroDetails ==
    "Foreign Spend Amount: 23,50 EURO Commission Amount: 0.60 Currency Exchange Rate: 1.1750"

StatsRows ==
    {Row("30/12/2025", "TESCO STORES 3731", "10.00", "", "", "Groceries-Supermarkets"),
     Row("15/11/2025", "COSTA COFFEE", "20.00", ForeignDetails, "", "Entertainment-Restaurants"),
     Row("28/12/2025", "TESCO STORES 3731", "-25.00", "", "", "Groceries-Supermarkets"),
     Row("16/11/2025", "COSTA COFFEE", "-5.00", ForeignDetails, "", "Entertainment-Restaurants"),
     Row("02/10/2025", "PAYMENT RECEIVED - THANK YOU", "50.00", EuroDetails, "", "Entertainment-Restaurants"),
     Row("05/01/2024", "BRITISH AIRWAYS", "0.005", "", "", "Travel-Airlines"),
     Row("06/01/2024", "SHELL", "0.005", "", "", "General Purchases-Fuel"),
     Row("20/12/2025", "LIDL", "20.00", EuroDetails, "", "Groceries-Supermarkets"),
     Row("21/12/2025", "LIDL", "0.00", "", "", "Groceries-Supermarkets")}

LongStatement ==
    <<Row("03/02/2025", "BP", "11.00", "", "", "General Purchases-Fuel"),
      Row("04/02/2025", "NANDOS", "10.00", "", "", "Entertainment-Restaurants"),
      Row("05/02/2025", "EASYJET", "9.00", "", "", "Travel-Airlines"),
      Row("06/02/2025", "ZARA", "8.00", "", "", "Shopping-Clothing"),
      Row("07/02/2025", "WAITROSE", "7.00", "", "", "Groceries-Supermarkets"),
      Row("08/02/2025", "BOOTS", "6.00", "", "", "Health-Pharmacy"),
      Row("09/03/2025", "ADDISON LEE", "5.00", "", "", "Transport-Taxi"),
      Row("10/03/2025", "VODAFONE", "4.00", "", "", "Utilities-Phone"),
      Row("11/03/2025", "WATERSTONES", "3.00", "", "", "Education-Books"),
      Row("12/03/2025", "OXFAM", "2.00", "", "", "Charity-Donations"),
      Row("13/03/2025", "AVIVA", "1.00", "", "", "Insurance-Home")>>

MaxExtra == 3

StatsStatements ==
    {base \o extra : base \in {<<>>, LongStatement},
                     extra \in UNION {[1..k -> StatsRows] : k \in 0..MaxExtra}}

\* transformTransaction applied to each row of the pool at each index, as the
\* map callback of parseAmexCSV's uk branch applies it
TransformedRow ==
    [row \in StatsRows \cup {LongStatement[i] : i \in DOMAIN LongStatement},
     index \in 0..(Len(LongStatement) + MaxExtra) |->
        transformTransaction(UKRawTransaction(RowObject(UKColumns, row)), index)]

\* the list loadCSV hands to calculateWrappedStats: result.transactions of the
\* statement with these data rows
ParsedTransactions(rows) ==
    SelectSeq([i \in DOMAIN rows |-> TransformedRow[rows[i], i - 1]], KeepTransaction)

StatsInit ==
    /\ slist \in {ParsedTransactions(rows) : rows \in StatsStatements}
    /\ spc = "start"
    /\ sstats = Null
    /\ ParseIdle
    /\ TransformIdle
    /\ StoreInit
    /\ calls = <<>>
    /\ DetailsIdle

\* const stats = calculateWrappedStats(result.transactions)
CalculateStats ==
    /\ spc = "start"
    /\ sstats' = Some(calculateWrappedStats(slist))
    /\ spc' = "done"
    /\ UNCHANGED <<slist, parseVars, transformVars, storeVars, detailsVars>>

StatsNext == CalculateStats

StatsSpec == StatsInit /\ [][StatsNext]_vars

(***************************************************************************)
(* Properties of the snapshot (StatsSpec).  The reference figures are      *)
(* computed from the input list position by position.                      *)
(***************************************************************************)
StatsDone == spc = "done"
Snapshot == sstats[1]

Cent == Scale \div 100

Positions == DOMAIN slist
IsPurchase(t) == ~t.isPayment /\ ~t.isRefund
IsRefund(t) == ~t.isPayment /\ t.isRefund
NonPayments == {i \in Positions : ~slist[i].isPayment}
PurchasesIn(I) == {i \in I : IsPurchase(slist[i])}
RefundsIn(I) == {i \in I : IsRefund(slist[i])}

\* the sum of the magnitudes of the transactions at the positions I
RECURSIVE MagnitudeOver(_)
MagnitudeOver(I) ==
    IF I = {} THEN 0
    ELSE LET i == CHOOSE x \in I : TRUE
         IN  slist[i].absoluteAmount + MagnitudeOver(I \ {i})

\* purchases minus refunds at the positions I
NetOver(I) == MagnitudeOver(PurchasesIn(I)) - MagnitudeOver(RefundsIn(I))

\* x is a whole number of cents and a nearest one to amount / n (at a tie
\* either neighbour)
NearestCent(x, amount, n) ==
    /\ x % Cent = 0
    /\ 2 * (x * n - amount) <= Cent * n
    /\ 2 * (amount - x * n) <= Cent * n

RECURSIVE SumSeq(_)
SumSeq(seq) == IF seq = <<>> THEN 0 ELSE Head(seq) + SumSeq(Tail(seq))

NonIncreasing(seq) == \A i, j \in DOMAIN seq : i < j => seq[i] >= seq[j]

RemoveAt(seq, p) == [i \in 1..(Len(seq) - 1) |-> IF i < p THEN seq[i] ELSE seq[i + 1]]

WithoutDateRange(s) == [f \in DOMAIN s \ {"dateRange"} |-> s[f]]

\* C14: for every payment in the list, the snapshot of the list equals the
\* snapshot of the list without that payment in every field but dateRange.
C14_PaymentsInvisible ==
    StatsDone =>
        \A p \in Positions :
            slist[p].isPayment =>
                WithoutDateRange(calculateWrappedStats(RemoveAt(slist, p)))
                    = WithoutDateRange(Snapshot)

\* a snapshot of a list with a payment between a purchase and a refund
C14_PaymentInTheMiddle ==
    /\ StatsDone
    /\ \E p \in Positions :
          /\ slist[p].isPayment
          /\ p > 1 /\ IsPurchase(slist[p - 1])
          /\ p < Len(slist) /\ IsRefund(slist[p + 1])
    /\ Snapshot.transactionCount = Len(slist) - 1

CategoryPositions(c) == {i \in NonPayments : slist[i].mainCategory = c}
Categories == {slist[i].mainCategory : i \in NonPayments}

\* C15: each entry of topCategories stands for one top-level category of the
\* non-payment transactions whose purchases exceed its refunds, with total the
\* purchases minus the refunds in cents and count the number of purchases and
\* refunds; no category is listed twice; totals do not increase along the
\* list; there are at most 10 entries, and a category with a net total of a
\* cent or more is missing only when 10 entries with totals at least as
\* large are listed.
C15_CategoryTotals ==
    StatsDone =>
        LET cats == Snapshot.topCategories
        IN  /\ Len(cats) <= 10
            /\ \A k \in DOMAIN cats :
                  LET at == CategoryPositions(cats[k].category)
                  IN  /\ at # {}
                      /\ NetOver(at) > 0
                      /\ cats[k].total > 0
                      /\ NearestCent(cats[k].total, NetOver(at), 1)
                      /\ cats[k].count = Cardinality(at)
            /\ \A j, k \in DOMAIN cats : j # k => cats[j].category # cats[k].category
            /\ NonIncreasing([k \in DOMAIN cats |-> cats[k].total])
            /\ \A c \in Categories :
                  /\ NetOver(CategoryPositions(c)) >= Cent
                  /\ \A k \in DOMAIN cats : cats[k].category # c
                  => /\ Len(cats) = 10
                     /\ \A k \in DOMAIN cats :
                           2 * (NetOver(CategoryPositions(c)) - cats[k].total) <= Cent

\* eleven categories have a positive net total, one of them after a refund,
\* and the snapshot lists ten
C15_EleventhCategoryCut ==
    /\ StatsDone
    /\ Len(Snapshot.topCategories) = 10
    /\ Cardinality({c \in Categories : NetOver(CategoryPositions(c)) > 0}) = 11
    /\ \E c \in Categories : /\ RefundsIn(CategoryPositions(c)) # {}
                             /\ NetOver(CategoryPositions(c)) > 0

\* a category whose refunds exceed its purchases is absent from the snapshot
C15_OffsetCategoryDropped ==
    /\ StatsDone
    /\ \E c \in Categories :
          /\ NetOver(CategoryPositions(c)) < 0
          /\ \A k \in DOMAIN Snapshot.topCategories : Snapshot.topCategories[k].category # c

\* C16: the totals of the category entries of the snapshot add up to at most
\* totalSpent.
C16_CategorySumWithinTotalSpent ==
    StatsDone =>
        SumSeq([k \in DOMAIN Snapshot.topCategories |-> Snapshot.topCategories[k].total])
            <= Snapshot.totalSpent

\* the same for the lists in which every amount is a whole number of cents
C16_WholeCentLists ==
    StatsDone /\ (\A i \in Positions : slist[i].absoluteAmount % Cent = 0) =>
        C16_CategorySumWithinTotalSpent

MerchantPositions(m) == {i \in NonPayments : slist[i].merchantName = m}
Merchants == {slist[i].merchantName : i \in NonPayments}

\* C17: each entry of topMerchants stands for one cleaned merchant name of the
\* non-payment transactions whose purchases exceed its refunds, with total the
\* purchases minus the refunds in cents, count the number of its purchases
\* alone, and averageTransaction the net total divided by that count in cents;
\* no merchant is listed twice; totals do not increase along the list; there
\* are at most 10 entries, and a merchant with a net total of a cent or more
\* is missing only when 10 entries with totals at least as large are listed.
C17_MerchantTotals ==
    StatsDone =>
        LET ms == Snapshot.topMerchants
        IN  /\ Len(ms) <= 10
            /\ \A k \in DOMAIN ms :
                  LET at == MerchantPositions(ms[k].merchantName)
                      visits == Cardinality(PurchasesIn(at))
                  IN  /\ NetOver(at) > 0
                      /\ ms[k].total > 0
                      /\ NearestCent(ms[k].total, NetOver(at), 1)
                      /\ ms[k].count = visits
                      /\ visits > 0
                      /\ NearestCent(ms[k].averageTransaction, NetOver(at), visits)
            /\ \A j, k \in DOMAIN ms : j # k => ms[j].merchantName # ms[k].merchantName
            /\ NonIncreasing([k \in DOMAIN ms |-> ms[k].total])
            /\ \A m \in Merchants :
                  /\ NetOver(MerchantPositions(m)) >= Cent
                  /\ \A k \in DOMAIN ms : ms[k].merchantName # m
                  => /\ Len(ms) = 10
                     /\ \A k \in DOMAIN ms :
                           2 * (NetOver(MerchantPositions(m)) - ms[k].total) <= Cent

\* a listed merchant with one purchase and one refund, counted as one visit,
\* and a merchant with refunds only that is not listed
C17_RefundNotAVisit ==
    /\ StatsDone
    /\ \E k \in DOMAIN Snapshot.topMerchants :
          LET at == MerchantPositions(Snapshot.topMerchants[k].merchantName)
          IN  /\ Cardinality(PurchasesIn(at)) = 1
              /\ RefundsIn(at) # {}
              /\ Snapshot.topMerchants[k].count = 1
    /\ \E m \in Merchants :
          /\ PurchasesIn(MerchantPositions(m)) = {}
          /\ \A k \in DOMAIN Snapshot.topMerchants : Snapshot.topMerchants[k].merchantName # m

\* the calendar year and month (1..12) of the transaction at position i
YearMonthAt(i) == <<getFullYear(slist[i].parsedDate), getMonth(slist[i].parsedDate) + 1>>

\* the month key YYYY-MM of a year and month
KeyText(ym) == ToString(ym[1]) \o "-" \o (IF ym[2] < 10 THEN "0" ELSE "") \o ToString(ym[2])

MonthPositions(key) == {i \in NonPayments : KeyText(YearMonthAt(i)) = key}

\* C18: the months of monthlySpending are exactly the year-months that hold a
\* non-payment transaction, each once; the total of a month is its purchases
\* minus its refunds in cents, or 0 when the refunds are larger, hence never
\* negative; the entries are in strictly ascending order of month key (for
\* four-digit years the order of the year-months).
C18_MonthlySeries ==
    StatsDone =>
        LET series == Snapshot.monthlySpending
            ordinal(key) == LET ym == YearMonthAt(CHOOSE i \in MonthPositions(key) : TRUE)
                            IN  12 * ym[1] + ym[2]
        IN  /\ {series[k].month : k \in DOMAIN series}
                  = {KeyText(YearMonthAt(i)) : i \in NonPayments}
            /\ \A j, k \in DOMAIN series : j # k => series[j].month # series[k].month
            /\ \A k \in DOMAIN series :
                  LET net == NetOver(MonthPositions(series[k].month))
                  IN  /\ series[k].total >= 0
                      /\ NearestCent(series[k].total, IF net > 0 THEN net ELSE 0, 1)
            /\ \A j, k \in DOMAIN series :
                  j < k => ordinal(series[j].month) < ordinal(series[k].month)

\* a month whose refunds exceed its purchases is listed with total 0 after an
\* earlier month, and a month with a payment only is not listed
C18_NegativeMonthShownAsZero ==
    /\ StatsDone
    /\ \E k \in DOMAIN Snapshot.monthlySpending :
          /\ k > 1
          /\ NetOver(MonthPositions(Snapshot.monthlySpending[k].month)) < 0
          /\ Snapshot.monthlySpending[k].total = 0
    /\ \E p \in Positions :
          /\ slist[p].isPayment
          /\ \A k \in DOMAIN Snapshot.monthlySpending :
                Snapshot.monthlySpending[k].month # KeyText(YearMonthAt(p))

\* the purchases that carry foreign-currency detail
ForeignPurchases == {i \in Positions : IsPurchase(slist[i]) /\ slist[i].foreignCurrency # Null}
ForeignPurchasesIn(code) ==
    {i \in ForeignPurchases : slist[i].foreignCurrency[1].currencyCode = code}

\* the sum of the commissions of the transactions at the positions I
RECURSIVE CommissionOver(_)
CommissionOver(I) ==
    IF I = {} THEN 0
    ELSE LET i == CHOOSE x \in I : TRUE
         IN  slist[i].foreignCurrency[1].commission.v + CommissionOver(I \ {i})

C20_HeadlineFigures ==
    StatsDone =>
        LET purchases == PurchasesIn(Positions)
            refunds == RefundsIn(Positions)
            spent == MagnitudeOver(purchases)
            refunded == MagnitudeOver(refunds)
        IN  /\ NearestCent(Snapshot.totalSpent, spent, 1)
            /\ NearestCent(Snapshot.totalRefunds, refunded, 1)
            /\ NearestCent(Snapshot.netSpending, spent - refunded, 1)
            /\ Snapshot.netSpending = Snapshot.totalSpent - Snapshot.totalRefunds
            /\ Snapshot.transactionCount = Cardinality(purchases) + Cardinality(refunds)
            /\ Snapshot.transactionCount = Cardinality(NonPayments)
            /\ IF purchases = {}
               THEN Snapshot.averageTransaction = 0
               ELSE NearestCent(Snapshot.averageTransaction, spent, Cardinality(purchases))

\* a statement with a payment whose refunds exceed its purchases: the net
\* figure is negative and the average is over the purchases alone
C20_RefundsExceedPurchases ==
    /\ StatsDone
    /\ \E i \in Positions : slist[i].isPayment
    /\ PurchasesIn(Positions) # {}
    /\ Snapshot.netSpending < 0
    /\ Snapshot.averageTransaction > 0
    /\ Snapshot.transactionCount < Len(slist)

\* the purchase at position i has the largest magnitude of the purchases, and
\* no purchase before it has the same magnitude
FirstLargestPurchase(i) ==
    /\ i \in PurchasesIn(Positions)
    /\ \A j \in PurchasesIn(Positions) :
          /\ slist[j].absoluteAmount <= slist[i].absoluteAmount
          /\ slist[j].absoluteAmount = slist[i].absoluteAmount => i <= j

\* C21: biggestPurchase is none exactly when the list has no purchase;
\* otherwise it is the first, in input order, of the purchases of the largest
\* magnitude (so never a refund or a payment).
C21_BiggestPurchase ==
    StatsDone =>
        /\ Snapshot.biggestPurchase = Null <=> PurchasesIn(Positions) = {}
        /\ Snapshot.biggestPurchase # Null =>
              \E i \in Positions : /\ FirstLargestPurchase(i)
                                   /\ Snapshot.biggestPurchase = Some(slist[i])

\* The same with none standing for "no purchase of a magnitude above zero":
\* this is what the reduce computes.
C21_AmongPositivePurchases ==
    StatsDone =>
        /\ Snapshot.biggestPurchase = Null <=>
              \A i \in PurchasesIn(Positions) : slist[i].absoluteAmount = 0
        /\ Snapshot.biggestPurchase # Null =>
              \E i \in Positions : /\ FirstLargestPurchase(i)
                                   /\ Snapshot.biggestPurchase = Some(slist[i])

\* the merchants that have an entry in the merchant totals, and the number of
\* purchases of each
ListedMerchants == {m \in Merchants : NetOver(MerchantPositions(m)) > 0}
VisitsOf(m) == Cardinality(PurchasesIn(MerchantPositions(m)))

\* where entry stands in the exposed merchant list, 0 when it is not there
PlaceInTop(entry) ==
    IF \E k \in DOMAIN Snapshot.topMerchants : Snapshot.topMerchants[k] = entry
    THEN CHOOSE k \in DOMAIN Snapshot.topMerchants : Snapshot.topMerchants[k] = entry
    ELSE 0

\* C22: mostFrequentMerchant is none exactly when no merchant has a positive
\* net total; otherwise it is the entry of a merchant with a positive net
\* total whose count, the number of its purchases, is the highest of all such
\* merchants, and of the merchants with that count it is the first in the
\* order of decreasing totals: no merchant with the same count has a total a
\* cent or more above it, and in the exposed list no entry with the same
\* count stands before it.
C22_MostFrequentMerchant ==
    StatsDone =>
        LET fav == Snapshot.mostFrequentMerchant
        IN  /\ fav = Null <=> ListedMerchants = {}
            /\ fav # Null =>
                  LET name == fav[1].merchantName
                      place == PlaceInTop(fav[1])
                  IN  /\ name \in ListedMerchants
                      /\ fav[1].count = VisitsOf(name)
                      /\ NearestCent(fav[1].total, NetOver(MerchantPositions(name)), 1)
                      /\ \A m \in ListedMerchants :
                            /\ VisitsOf(m) <= fav[1].count
                            /\ VisitsOf(m) = fav[1].count =>
                                  NetOver(MerchantPositions(m))
                                      < NetOver(MerchantPositions(name)) + Cent
                      /\ \A k \in DOMAIN Snapshot.topMerchants :
                            Snapshot.topMerchants[k].count = fav[1].count =>
                                place # 0 /\ place <= k

\* two merchants with the same number of visits, and the favourite is the one
\* with the larger total although the other comes first in the statement
C22_TieGoesToLargerTotal ==
    /\ StatsDone
    /\ Snapshot.mostFrequentMerchant # Null
    /\ \E k \in DOMAIN Snapshot.topMerchants :
          /\ Snapshot.topMerchants[k].count = Snapshot.mostFrequentMerchant[1].count
          /\ Snapshot.topMerchants[k].total < Snapshot.mostFrequentMerchant[1].total
          /\ \E i \in PurchasesIn(Positions) :
                /\ slist[i].merchantName = Snapshot.topMerchants[k].merchantName
                /\ \A j \in PurchasesIn(Positions) :
                      slist[j].merchantName = Snapshot.mostFrequentMerchant[1].merchantName
                          => i < j

\* C28 as stated: a favourite merchant is one of the entries of the exposed
\* topMerchants list.
C28_FavouriteAmongTop ==
    StatsDone /\ Snapshot.mostFrequentMerchant # Null =>
        PlaceInTop(Snapshot.mostFrequentMerchant[1]) # 0

\* C28: a favourite merchant is one of the entries of the exposed topMerchants
\* list unless that list is full, with ten entries each of a total at least
\* as large as the favourite's and of a smaller count.
C28_FavouriteAmongTopUnlessCrowdedOut ==
    StatsDone /\ Snapshot.mostFrequentMerchant # Null =>
        \/ PlaceInTop(Snapshot.mostFrequentMerchant[1]) # 0
        \/ /\ Len(Snapshot.topMerchants) = 10
           /\ \A k \in DOMAIN Snapshot.topMerchants :
                 /\ Snapshot.topMerchants[k].total >= Snapshot.mostFrequentMerchant[1].total
                 /\ Snapshot.topMerchants[k].count < Snapshot.mostFrequentMerchant[1].count

\* the favourite is a merchant visited twice whose total is below those of the
\* ten merchants exposed
C28_FavouriteBeyondTheTen ==
    /\ StatsDone
    /\ Snapshot.mostFrequentMerchant # Null
    /\ Snapshot.mostFrequentMerchant[1].count = 2
    /\ PlaceInTop(Snapshot.mostFrequentMerchant[1]) = 0
    /\ Len(Snapshot.topMerchants) = 10

\* C23: for a list that is not empty, dateRange.start is the parsed date of a
\* transaction of the list that no transaction precedes and dateRange.end
\* one that no transaction follows, payments counted like the rest, so that
\* start is not after end; for a list of payments alone both ends are set
\* while totalSpent, totalRefunds, netSpending and transactionCount are 0.
C23_DateRangeOverAll ==
    StatsDone /\ slist # <<>> =>
        LET range == Snapshot.dateRange
        IN  /\ range.start # Null
            /\ range.end # Null
            /\ \E i \in Positions : range.start[1] = slist[i].parsedDate
            /\ \E i \in Positions : range.end[1] = slist[i].parsedDate
            /\ \A i \in Positions :
                  /\ range.start[1].day <= slist[i].parsedDate.day
                  /\ slist[i].parsedDate.day <= range.end[1].day
            /\ range.start[1].day <= range.end[1].day
            /\ NonPayments = {} =>
                  /\ Snapshot.totalSpent = 0
                  /\ Snapshot.totalRefunds = 0
                  /\ Snapshot.netSpending = 0
                  /\ Snapshot.transactionCount = 0

\* a statement of purchases and a payment that is dated before all of them
C23_PaymentOpensTheRange ==
    /\ StatsDone
    /\ NonPayments # {}
    /\ \E i \in Positions :
          /\ slist[i].isPayment
          /\ Snapshot.dateRange.start = Some(slist[i].parsedDate)
          /\ \A j \in NonPayments : slist[i].parsedDate.day < slist[j].parsedDate.day

\* x is amount / n rounded to whole cents, a tie going to the neighbour that
\* is further from zero
HalfAwayFromZero(x, amount, n) ==
    /\ NearestCent(x, amount, n)
    /\ 2 * (x * n - amount) = Cent * n => amount > 0
    /\ 2 * (amount - x * n) = Cent * n => amount < 0

\* the same with a tie going to the neighbour above
HalfTowardPlusInfinity(x, amount, n) ==
    /\ NearestCent(x, amount, n)
    /\ 2 * (amount - x * n) # Cent * n

\* every currency-valued field of the snapshot is its full-precision value
\* rounded by the rule Rounded
CurrencyFieldsRounded(Rounded(_, _, _)) ==
    LET spent == MagnitudeOver(PurchasesIn(Positions))
        refunded == MagnitudeOver(RefundsIn(Positions))
        floored(net) == IF net > 0 THEN net ELSE 0
        fs == Snapshot.foreignSpend
    IN  /\ Rounded(Snapshot.totalSpent, spent, 1)
        /\ Rounded(Snapshot.totalRefunds, refunded, 1)
        /\ Rounded(Snapshot.netSpending, spent - refunded, 1)
        /\ PurchasesIn(Positions) # {} =>
              Rounded(Snapshot.averageTransaction, spent, Cardinality(PurchasesIn(Positions)))
        /\ \A k \in DOMAIN Snapshot.topCategories :
              Rounded(Snapshot.topCategories[k].total,
                      floored(NetOver(CategoryPositions(Snapshot.topCategories[k].category))), 1)
        /\ \A k \in DOMAIN Snapshot.topMerchants :
              LET at == MerchantPositions(Snapshot.topMerchants[k].merchantName)
              IN  /\ Rounded(Snapshot.topMerchants[k].total, floored(NetOver(at)), 1)
                  /\ Rounded(Snapshot.topMerchants[k].averageTransaction,
                             floored(NetOver(at)), Cardinality(PurchasesIn(at)))
        /\ \A k \in DOMAIN Snapshot.monthlySpending :
              Rounded(Snapshot.monthlySpending[k].total,
                      floored(NetOver(MonthPositions(Snapshot.monthlySpending[k].month))), 1)
        /\ Rounded(fs.totalGBP, MagnitudeOver(ForeignPurchases), 1)
        /\ Rounded(fs.totalCommission, CommissionOver(ForeignPurchases), 1)
        /\ \A k \in DOMAIN fs.byCurrency :
              Rounded(fs.byCurrency[k].totalGBP,
                      MagnitudeOver(ForeignPurchasesIn(fs.byCurrency[k].currencyCode)), 1)

\* C24: every currency-valued field of the snapshot (the four headline
\* figures, the category, merchant and monthly totals, the foreign-spend
\* totals) is its full-precision value rounded once to whole cents, a value
\* that lies halfway between two cents going to the one further from zero,
\* for negative values too.
C24_RoundedHalfAwayFromZero == StatsDone => CurrencyFieldsRounded(HalfAwayFromZero)

\* The rule the fields follow: halfway values go to the cent above, which for
\* a negative value is the one nearer to zero.
C24_RoundedHalfTowardPlusInfinity == StatsDone => CurrencyFieldsRounded(HalfTowardPlusInfinity)

\* C25: calculateWrappedStats returns a snapshot for every list (once the
\* call is over a snapshot is there), and for the empty list the
\* snapshot is the zero snapshot: totalSpent, totalRefunds, netSpending,
\* transactionCount, averageTransaction and uniqueMerchants are 0, the
\* category, merchant, month and currency lists are empty, biggestPurchase
\* and mostFrequentMerchant are none, and both ends of dateRange are null.
C25_ZeroSnapshotForEmptyList ==
    /\ StatsDone => sstats # Null
    /\ StatsDone /\ slist = <<>> =>
          /\ Snapshot.totalSpent = 0
          /\ Snapshot.totalRefunds = 0
          /\ Snapshot.netSpending = 0
          /\ Snapshot.transactionCount = 0
          /\ Snapshot.averageTransaction = 0
          /\ Snapshot.uniqueMerchants = 0
          /\ Snapshot.topCategories = <<>>
          /\ Snapshot.topMerchants = <<>>
          /\ Snapshot.monthlySpending = <<>>
          /\ Snapshot.biggestPurchase = Null
          /\ Snapshot.mostFrequentMerchant = Null
          /\ Snapshot.dateRange.start = Null
          /\ Snapshot.dateRange.end = Null
          /\ Snapshot.foreignSpend.totalGBP = 0
          /\ Snapshot.foreignSpend.totalCommission = 0
          /\ Snapshot.foreignSpend.transactionCount = 0
          /\ Snapshot.foreignSpend.byCurrency = <<>>

\* the snapshot of the empty list has been computed
C25_EmptyListAggregated ==
    /\ StatsDone
    /\ slist = <<>>
    /\ sstats # Null
    /\ Snapshot.transactionCount = 0

(***************************************************************************)
(* Properties of the category inference (CategorySpec)                     *)
(***************************************************************************)
\* the keyword groups in the order of the decision table, each with its
\* category and sub-category
GroupLabels ==
    <<<<"Restaurant", "Restaurants">>, <<"Merchandise & Supplies", "Groceries">>,
      <<"Transportation", "Travel">>, <<"Entertainment", "Entertainment">>,
      <<"Merchandise & Supplies", "Retail">>, <<"Business Services", "Technology">>,
      <<"Travel", "Travel">>, <<"Utilities", "Services">>>>

GroupMatches(g, text) ==
    CASE g = 1 -> IncludesAny(text, {"UBER EATS", "RAPPI", "DIDI FOOD", "REST", "CAFE",
                                     "COFFEE", "STARBUCKS", "MCDONALD", "BURGER", "PIZZA",
                                     "TACO", "SUSHI", "BAR ", "CANTINA"})
      [] g = 2 -> IncludesAny(text, {"WALMART", "SUPERMARKET", "SUPERCENTER", "SORIANA",
                                     "CHEDRAUI", "COSTCO", "SAM'S", "BODEGA", "OXXO",
                                     "7-ELEVEN", "MERCADO"})
      [] g = 3 -> \/ IncludesAny(text, {"DIDI", "CABIFY", "TAXI", "GASOLINA", "GAS STATION",
                                        "PEMEX", "ESTACION"})
                  \/ \E i \in 1..Len(text) :
                        /\ StartsWithAt(text, i, "UBER")
                        /\ ~StartsWithAt(text, i + 4, " EATS")
      [] g = 4 -> \/ IncludesAny(text, {"NETFLIX", "SPOTIFY", "DISNEY", "PRIME VIDEO", "HBO",
                                        "YOUTUBE", "CINEPOLIS", "CINEMEX", "TICKETMASTER"})
                  \/ \E i, j \in 1..Len(text) :
                        /\ StartsWithAt(text, i, "APPLE")
                        /\ i + 5 <= j
                        /\ StartsWithAt(text, j, "MUSIC")
      [] g = 5 -> IncludesAny(text, {"AMAZON", "MERCADOLIBRE", "LIVERPOOL", "PALACIO", "ZARA",
                                     "H&M", "NIKE", "ADIDAS", "SHEIN", "AMERICAN EAGLE"})
      [] g = 6 -> IncludesAny(text, {"PAYPAL", "APPLE", "GOOGLE", "MICROSOFT", "ADOBE",
                                     "CANVA", "DROPBOX", "NOTION", "SLACK"})
      [] g = 7 -> IncludesAny(text, {"MARRIOTT", "HILTON", "HOTEL", "AIRBNB", "BOOKING",
                                     "EXPEDIA", "AEROMEXICO", "VOLARIS", "VIVA"})
      [] g = 8 -> IncludesAny(text, {"CFE", "TELMEX", "IZZI", "TOTALPLAY", "MEGACABLE",
                                     "STARLINK", "NETFLIX", "INTERNET"})

\* the groups that the description of the row matches, letter case aside
MatchingGroups ==
    {g \in DOMAIN GroupLabels : GroupMatches(g, toUpperCase(trow.description))}

InferredLabel ==
    IF MatchingGroups = {} THEN <<"Other", "Other">>
    ELSE GroupLabels[CHOOSE g \in MatchingGroups : \A h \in MatchingGroups : g <= h]

\* C26: the category label of a Dialect B row is that of the first keyword
\* group, in the order food, groceries, transportation, entertainment,
\* shopping, technology, travel, utilities, that its description matches,
\* whatever later groups match as well, and 'Other-Other' when none does;
\* mainCategory and subCategory are the two halves of the label.
C26_FirstMatchingGroupWins ==
    tpc = "mexico" =>
        /\ tout[1].category = InferredLabel[1] \o "-" \o InferredLabel[2]
        /\ tout[1].mainCategory = InferredLabel[1]
        /\ tout[1].subCategory = InferredLabel[2]

\* a description with a food-delivery keyword (group 1) and a transportation
\* keyword (group 3) has been labelled Restaurant
C26_FoodBeforeTransportation ==
    /\ tpc = "mexico"
    /\ {1, 3} \subseteq MatchingGroups
    /\ tout[1].mainCategory = "Restaurant"

(***************************************************************************)
(* Properties of the store under overlapping calls (StoreSpec)             *)
(***************************************************************************)
\* the step is the end of a loadCSV call that parsed a non-empty statement
SuccessfulLoadEnds ==
    \E c \in Calls : /\ calls[c].pc = "parsing"
                     /\ calls'[c].pc = "idle"
                     /\ calls[c].result[1].settled = "resolved"
                     /\ calls[c].result[1].transactions # <<>>

\* the step leaves the store as clearData does
StoreCleared ==
    /\ transactions' = <<>>
    /\ stats' = Null
    /\ fileName' = Null
    /\ format' = Null
    /\ isLoading' = FALSE
    /\ error' = Null

\* the module-level configuration is that of the store, and the store's is
\* that of its format
ConfigMatchesStore ==
    /\ currentCurrency = currency
    /\ currentLocale = currencyLocale
    /\ format \in {Null, Some("uk"), Some("mexico")}
    /\ format \in {Null, Some("uk")} => currency = "GBP" /\ currencyLocale = "en-GB"
    /\ format = Some("mexico") => currency = "MXN" /\ currencyLocale = "es-MX"

\* C27: in every reachable state the module-level currency and locale that
\* formatCurrency reads are the store's currency and currencyLocale, and these
\* are GBP and en-GB when format is null or 'uk' and MXN and es-MX when format
\* is 'mexico' (before and after every step); the module-level pair changes
\* only in a step that ends a successful load or clears the store.
C27_CurrencyConfigFollowsStore ==
    [][/\ ConfigMatchesStore
       /\ ConfigMatchesStore'
       /\ <<currentCurrency, currentLocale>>' # <<currentCurrency, currentLocale>>
              => SuccessfulLoadEnds \/ StoreCleared]_vars

\* the Mexican statement is loaded, a later load has failed and another call
\* is in flight: the configuration is still that of the Mexican statement
C27_MexicoConfigAfterFailure ==
    /\ format = Some("mexico")
    /\ currentCurrency = "MXN"
    /\ currentLocale = "es-MX"
    /\ error # Null
    /\ \E c \in Calls : calls[c].pc # "idle"

\* the loadCSV calls that have started and not yet completed
InFlight == {c \in Calls : calls[c].pc # "idle"}

\* C29: isLoading is true in every state in which a loadCSV call has started
\* and not yet completed, whatever other calls have started or completed in
\* the meantime.
C29_LoadingWhileInFlight == InFlight # {} => isLoading

\* C30: the step that completes the last call in flight does not change the
\* data of the store when, since that call started, a later loadCSV or a
\* clearData has been requested: the store keeps what the later request left.
C30_LatestRequestWins ==
    [][\A c \in Calls :
          /\ c \in InFlight
          /\ calls[c].superseded
          /\ \A d \in Calls : calls'[d].pc = "idle"
          => UNCHANGED <<transactions, stats, fileName, format, currency, currencyLocale>>]_vars

=============================================================================
